---------------------------- MODULE Spec2Model ----------------------------
(***************************************************************************)
(* GeoUsage: access-log records (log.py), usage analysis (log.py) and the  *)
(* Elasticsearch indexing pipeline with IP geolocation (log_es.py).        *)
(*                                                                         *)
(* The module holds one specification per component:                       *)
(*   SpecLocate    locateIP, the binary search over the IP2LOCATION table  *)
(*   FairLocate    the same, with the loop scheduled fairly                *)
(*   SpecRecord    LogRecord, OWSLogRecord, WMSLogRecord, WPSLogRecord and  *)
(*                 get_record applied to one access-log line               *)
(*   SpecAnalyzer  Analyzer applied to a list of records                   *)
(*   SpecPipeline  index(): the files of a pattern are read, their records *)
(*                 written to the store in batches, the daily window is    *)
(*                 rolled up; the command may be given a second time       *)
(*   SpecTime      test_time applied to a datetime and a list of bounds    *)
(***************************************************************************)
EXTENDS Integers, Sequences, FiniteSets, TLC

VARIABLES
    \* ---- locateIP (log_es.py) ----
    IP2LOCATION,    \* the lookup table, a sequence of rows (0-based in the code)
    ip_number,      \* the IP number looked up
    i,              \* the probed index
    i_min,          \* lower index of the search window
    i_max,          \* upper index of the search window
    lpc,            \* position in locateIP: "call", "loop", "done", "raised"
    location,       \* the value locateIP returns
    \* ---- record construction (log.py) ----
    made,           \* what the input line was put together from
    line,           \* the access-log line
    endpoint,       \* the endpoint filter, or None
    service_type,   \* the service-type filter, or None
    rpc,            \* "input", then the name of the constructor that was called
    rec,            \* the record it returned, or the exception it raised
    \* ---- Analyzer (log.py) ----
    records,        \* the records handed to Analyzer
    resolve_ips,    \* whether client addresses are looked up
    apc,            \* position in Analyzer.__init__: "call", "loop", "done", "raised"
    pos,            \* the loop's place in records (1-based)
    analyzer,       \* the attributes of the Analyzer object
    \* ---- index() (log_es.py) ----
    globbed,        \* the file names glob.glob returned
    cfg,            \* the options of the command
    run,            \* "first" or "second": which time the command is given
    ipc,            \* position in index(): "start", "open", "lines", "rollup",
                    \* "done", "aborted"
    logfiles,       \* the file names, sorted
    logtrack,       \* the daily window, the threshold and the file dates
    fpos,           \* the file being read (1-based place in logfiles)
    lpos,           \* the line to read next (1-based place in the file)
    linesparsed,    \* accepted lines of the file so far
    pending,        \* the batch of records not yet written
    base_yyyymmdd,  \* the key of the stats document of the window
    store,          \* the documents of the log index
    auto_id,        \* how many IDs the store has made up
    stats,          \* the documents of the daily stats index
    events,         \* what this run has asked of the store, in order
    faults,         \* how many requests the store has refused so far
    first_count,    \* documents in the log index when the first run ended
    \* ---- test_time (log.py) ----
    intime,         \* the datetime tested
    times,          \* the list of bounds
    datetype,       \* "date" or "datetime"
    tpc,            \* position in test_time: "call", "done", "raised"
    result          \* the value test_time returns

locateVars == <<IP2LOCATION, ip_number, i, i_min, i_max, lpc, location>>

recordVars == <<made, line, endpoint, service_type, rpc, rec>>

analyzerVars == <<records, resolve_ips, apc, pos, analyzer>>

pipelineVars == <<globbed, cfg, run, ipc, logfiles, logtrack, fpos, lpos, linesparsed,
                  pending, base_yyyymmdd, store, auto_id, stats, events, faults,
                  first_count>>

timeVars == <<intime, times, datetype, tpc, result>>

vars == <<locateVars, recordVars, analyzerVars, pipelineVars, timeVars>>

\* what the actions of one component leave alone
notLocateVars == <<recordVars, analyzerVars, pipelineVars, timeVars>>
notRecordVars == <<locateVars, analyzerVars, pipelineVars, timeVars>>
notAnalyzerVars == <<locateVars, recordVars, pipelineVars, timeVars>>
notPipelineVars == <<locateVars, recordVars, analyzerVars, timeVars>>
notTimeVars == <<locateVars, recordVars, analyzerVars, pipelineVars>>

(***************************************************************************)
(* Bounds                                                                  *)
(***************************************************************************)
\* largest IP number of the lookup tables and of the addresses looked up
MaxIp == 6
\* largest number of rows of a lookup table
MaxRows == 3
\* largest number of tokens a shortened input line is cut to
MaxTokens == 13
\* largest number of records handed to Analyzer
MaxRecords == 3
\* largest number of files the pattern matches
MaxFiles == 3
\* largest number of requests the store refuses
MaxFaults == 1
\* longest list of bounds handed to test_time
MaxBounds == 3

(***************************************************************************)
(* Python str operations used by log.py, on TLA+ strings                   *)
(***************************************************************************)
\* Python's None, for the fields that hold a string or None
None == "<None>"

\* s[k-1]
CharAt(s, k) == SubSeq(s, k, k)

\* s[k-1:]
From(s, k) == SubSeq(s, k, Len(s))

\* s.startswith(p)
StartsWith(s, p) == Len(p) <= Len(s) /\ SubSeq(s, 1, Len(p)) = p

\* s.find(c) + 1 for a one-character c: 0 when c is not in s
Find(s, c) ==
    LET hits == {k \in 1..Len(s) : CharAt(s, k) = c}
    IN  IF hits = {} THEN 0 ELSE CHOOSE k \in hits : \A h \in hits : k <= h

\* c in s
Contains(s, c) == Find(s, c) # 0

\* s.split(c) for a one-character separator
RECURSIVE Split(_, _)
Split(s, c) ==
    LET k == Find(s, c)
    IN  IF k = 0 THEN <<s>>
        ELSE <<SubSeq(s, 1, k - 1)>> \o Split(From(s, k + 1), c)

\* s.split(c, 1) for a string that holds c
SplitOnce(s, c) ==
    LET k == Find(s, c) IN <<SubSeq(s, 1, k - 1), From(s, k + 1)>>

\* s.lstrip(c) and s.rstrip(c) for a one-character c
RECURSIVE LStrip(_, _)
LStrip(s, c) ==
    IF Len(s) > 0 /\ CharAt(s, 1) = c THEN LStrip(From(s, 2), c) ELSE s

RECURSIVE RStrip(_, _)
RStrip(s, c) ==
    IF Len(s) > 0 /\ CharAt(s, Len(s)) = c
      THEN RStrip(SubSeq(s, 1, Len(s) - 1), c) ELSE s

\* s.replace(old, new)
RECURSIVE Replace(_, _, _)
Replace(s, old, new) ==
    IF Len(s) = 0 THEN ""
    ELSE IF StartsWith(s, old) THEN new \o Replace(From(s, Len(old) + 1), old, new)
    ELSE CharAt(s, 1) \o Replace(From(s, 2), old, new)

\* sep.join(parts)
RECURSIVE Join(_, _)
Join(parts, sep) ==
    IF Len(parts) = 0 THEN ""
    ELSE IF Len(parts) = 1 THEN parts[1]
    ELSE parts[1] \o sep \o Join(Tail(parts), sep)

\* line.split(): the tokens between runs of blanks, none of them empty
RECURSIVE SplitWS(_)
SplitWS(s) ==
    LET t == LStrip(s, " ")
        k == Find(t, " ")
    IN  IF Len(t) = 0 THEN <<>>
        ELSE IF k = 0 THEN <<t>>
        ELSE <<SubSeq(t, 1, k - 1)>> \o SplitWS(From(t, k + 1))

UpperChars == "ABCDEFGHIJKLMNOPQRSTUVWXYZ"
LowerChars == "abcdefghijklmnopqrstuvwxyz"

\* s.lower()
RECURSIVE Lower(_)
Lower(s) ==
    IF Len(s) = 0 THEN ""
    ELSE LET u == Find(UpperChars, CharAt(s, 1))
         IN  (IF u = 0 THEN CharAt(s, 1) ELSE CharAt(LowerChars, u))
               \o Lower(From(s, 2))

DigitChars == "0123456789"

IsDigit(c) == Len(c) = 1 /\ Contains(DigitChars, c)

AllDigits(s) == Len(s) > 0 /\ \A k \in 1..Len(s) : IsDigit(CharAt(s, k))

\* the value of a string of decimal digits
RECURSIVE DecValue(_)
DecValue(s) ==
    IF Len(s) = 0 THEN 0
    ELSE 10 * DecValue(SubSeq(s, 1, Len(s) - 1))
           + (Find(DigitChars, CharAt(s, Len(s))) - 1)

\* int(s) succeeds: an optional sign and decimal digits (the tokens hold no
\* blanks; digit-group underscores are not modelled)
IsIntLiteral(s) ==
    IF Len(s) > 0 /\ CharAt(s, 1) \in {"+", "-"}
      THEN AllDigits(From(s, 2)) ELSE AllDigits(s)

\* int(s) for such a string
IntValue(s) ==
    IF CharAt(s, 1) = "-" THEN 0 - DecValue(From(s, 2))
    ELSE IF CharAt(s, 1) = "+" THEN DecValue(From(s, 2))
    ELSE DecValue(s)

\* str(n) for n >= 0
RECURSIVE ToDec(_)
ToDec(n) ==
    IF n < 10 THEN CharAt(DigitChars, n + 1)
    ELSE ToDec(n \div 10) \o CharAt(DigitChars, (n % 10) + 1)

\* n formatted with at least w digits, zero padded (strftime, isoformat)
RECURSIVE Pad(_, _)
Pad(n, w) == IF Len(ToDec(n)) >= w THEN ToDec(n) ELSE
                SubSeq("0000", 1, w - Len(ToDec(n))) \o ToDec(n)

\* the percent escapes urllib.parse.unquote decodes in the modelled requests;
\* any other text is left as it stands
Escapes == <<"%3A", "%3a", "%2C", "%2c", "%2F", "%2f", "%20">>
Decoded == <<":", ":", ",", ",", "/", "/", " ">>

\* urllib.parse.unquote(s)
RECURSIVE unquote(_)
unquote(s) ==
    IF Len(s) = 0 THEN ""
    ELSE LET e == {k \in 1..Len(Escapes) : StartsWith(s, Escapes[k])}
         IN  IF e = {} THEN CharAt(s, 1) \o unquote(From(s, 2))
             ELSE Decoded[CHOOSE k \in e : TRUE] \o unquote(From(s, 4))

(***************************************************************************)
(* datetime.datetime: the fields Python keeps, compared field by field     *)
(***************************************************************************)
DateTime(y, mo, d, h, mi, sec) ==
    [year |-> y, month |-> mo, day |-> d, hour |-> h, minute |-> mi, second |-> sec]

\* a datetime attribute that is None
NoDatetime == DateTime(0, 0, 0, 0, 0, 0)

\* a < b on datetime objects
DtLess(a, b) ==
    LET ka == <<a.year, a.month, a.day, a.hour, a.minute, a.second>>
        kb == <<b.year, b.month, b.day, b.hour, b.minute, b.second>>
    IN  \E k \in 1..6 : ka[k] < kb[k] /\ \A j \in 1..(k - 1) : ka[j] = kb[j]

DtLeq(a, b) == a = b \/ DtLess(a, b)

MonthNames == <<"jan", "feb", "mar", "apr", "may", "jun",
                "jul", "aug", "sep", "oct", "nov", "dec">>

IsLeap(y) == y % 4 = 0 /\ (y % 100 # 0 \/ y % 400 = 0)

DaysInMonth(y, mo) ==
    IF mo = 2 THEN (IF IsLeap(y) THEN 29 ELSE 28)
    ELSE IF mo \in {4, 6, 9, 11} THEN 30 ELSE 31

\* a field of strptime: one or two digits (%d %H %M %S) or four (%Y)
Digits12(f) == AllDigits(f) /\ Len(f) <= 2
Digits4(f) == AllDigits(f) /\ Len(f) = 4

\* datetime.strptime(s, '%d/%b/%Y:%H:%M:%S') returns a value (no ValueError):
\* the whole string has the shape d/b/Y:H:M:S and names a calendar instant
StrptimeOk(s) ==
    LET p == Split(s, "/")
        q == IF Len(p) = 3 THEN Split(p[3], ":") ELSE <<>>
    IN  /\ Len(p) = 3
        /\ Len(q) = 4
        /\ Digits12(p[1])
        /\ \E m \in 1..12 : MonthNames[m] = Lower(p[2])
        /\ Digits4(q[1]) /\ DecValue(q[1]) >= 1
        /\ Digits12(q[2]) /\ DecValue(q[2]) <= 23
        /\ Digits12(q[3]) /\ DecValue(q[3]) <= 59
        /\ Digits12(q[4]) /\ DecValue(q[4]) <= 59
        /\ DecValue(p[1]) >= 1
        /\ DecValue(p[1]) <=
             DaysInMonth(DecValue(q[1]),
                         CHOOSE m \in 1..12 : MonthNames[m] = Lower(p[2]))

\* the value it returns
Strptime(s) ==
    LET p == Split(s, "/")
        q == Split(p[3], ":")
    IN  DateTime(DecValue(q[1]),
                 CHOOSE m \in 1..12 : MonthNames[m] = Lower(p[2]),
                 DecValue(p[1]), DecValue(q[2]), DecValue(q[3]), DecValue(q[4]))

\* dt.isoformat(), also strftime('%Y-%m-%dT%H:%M:%S')
isoformat(dt) ==
    Pad(dt.year, 4) \o "-" \o Pad(dt.month, 2) \o "-" \o Pad(dt.day, 2) \o "T"
      \o Pad(dt.hour, 2) \o ":" \o Pad(dt.minute, 2) \o ":" \o Pad(dt.second, 2)

(***************************************************************************)
(* log.py: records                                                         *)
(***************************************************************************)
\* an IP number, an unsigned 32-bit value, kept as two 16-bit halves:
\* the number is hi * 2^16 + lo
IpNumber(h, l) == [hi |-> h, lo |-> l]

IpZero == IpNumber(0, 0)

\* ipaddress.IPv4Address._parse_octet accepts the text of one octet
OctetOk(o) ==
    /\ AllDigits(o)
    /\ Len(o) <= 3
    /\ (CharAt(o, 1) = "0" => o = "0")
    /\ DecValue(o) <= 255

\* ipaddress.IPv4Address(ip) does not raise AddressValueError
IPv4AddressOk(ip) ==
    LET o == Split(ip, ".")
    IN  Len(ip) > 0 /\ Len(o) = 4 /\ \A k \in 1..4 : OctetOk(o[k])

\* (mutant) the four octets, least significant first
IPv4IntLittleEndian(ip) ==
    LET o == Split(ip, ".")
    IN  IpNumber(DecValue(o[4]) * 256 + DecValue(o[3]),
                 DecValue(o[2]) * 256 + DecValue(o[1]))

\* int(IPv4Address(ip)): the four octets, most significant first
IPv4Int(ip) ==
    LET o == Split(ip, ".")
    IN  IpNumber(DecValue(o[1]) * 256 + DecValue(o[2]),
                 DecValue(o[3]) * 256 + DecValue(o[4]))

\* log.py 428-442
dot2longip(ip) == IF IPv4AddressOk(ip) THEN IPv4Int(ip) ELSE IpZero

\* the outcome of a constructor that raised: no object is returned
Raised(e) == [raised |-> e]

\* (mutant) a line of exactly twelve tokens is refused
EnoughTokensStrict(tokens) == Len(tokens) > 12

\* log.py 96: the line has the tokens of an access-log record
EnoughTokens(tokens) == Len(tokens) >= 12

\* log.py 120-123: int(tokens[8]) and, unless it is "-", int(tokens[9])
StatusSizeOk(status, size) ==
    IsIntLiteral(status) /\ (size # "-" => IsIntLiteral(size))

\* log.py 102-104: the host is kept only when it converts to a non-zero number
RemoteHostIp(host, number) == IF number # IpZero THEN host ELSE None

\* log.py 122-123
SizeOf(size) == IF size # "-" THEN IntValue(size) ELSE 0

\* log.py 131
UserAgentOf(words) == RStrip(LStrip(Join(words, " "), "\""), "\"")

\* log.py 96-131, on the tokens of the line
LogRecordOf(tokens) ==
    IF ~EnoughTokens(tokens) THEN Raised("NotFoundError")
    ELSE IF ~StrptimeOk(LStrip(tokens[4], "[")) THEN Raised("NotFoundError")
    ELSE IF ~StatusSizeOk(tokens[9], tokens[10]) THEN Raised("NotFoundError")
    ELSE [raised |-> None,
          class |-> "LogRecord",
          ip_number |-> dot2longip(tokens[1]),
          remote_host_ip |-> RemoteHostIp(tokens[1], dot2longip(tokens[1])),
          datetime |-> Strptime(LStrip(tokens[4], "[")),
          timezone |-> RStrip(tokens[5], "]"),
          request_type |-> LStrip(tokens[6], "\""),
          request |-> tokens[7],
          protocol |-> RStrip(tokens[8], "\""),
          status_code |-> IntValue(tokens[9]),
          size |-> SizeOf(tokens[10]),
          referer |-> Replace(tokens[11], "\"", ""),
          user_agent |-> UserAgentOf(SubSeq(tokens, 12, Len(tokens)))]

\* log.py 48-131: LogRecord(line)
LogRecord(ln) == LogRecordOf(SplitWS(ln))

\* log.py 39-43
SERVICE_TYPES ==
    [t \in {"OGC:WMS", "OGC:WFS", "OGC:WPS"} |->
        CASE t = "OGC:WMS" -> "WMS" [] t = "OGC:WFS" -> "WFS" [] t = "OGC:WPS" -> "WPS"]

\* log.py 470-474: the keyword/value pairs of the query, in order;
\* a piece without "=" is dropped
KvpPairs(query) ==
    LET pieces == Split(query, "&")
        F[n \in 0..Len(pieces)] ==
            IF n = 0 THEN <<>>
            ELSE IF Contains(pieces[n], "=")
              THEN Append(F[n - 1],
                          <<unquote(Lower(SplitOnce(pieces[n], "=")[1])),
                            unquote(SplitOnce(pieces[n], "=")[2])>>)
              ELSE F[n - 1]
    IN  F[Len(pieces)]

\* the dict those assignments leave: the last value of a key wins
KvpDict(pairs) ==
    [k \in {pairs[n][1] : n \in 1..Len(pairs)} |->
        pairs[CHOOSE n \in 1..Len(pairs) :
                 /\ pairs[n][1] = k
                 /\ \A m \in (n + 1)..Len(pairs) : pairs[m][1] # k][2]]

\* results['kvp'][key] when the key is there, else the default
Get(kvp, key, default) == IF key \in DOMAIN kvp THEN kvp[key] ELSE default

\* log.py 485-488
RequestCrs(kvp) ==
    IF "crs" \in DOMAIN kvp THEN Replace(kvp["crs"], "%3A", ":")
    ELSE IF "subsettingcrs" \in DOMAIN kvp
      THEN Replace(kvp["subsettingcrs"], "%3A", ":")
    ELSE None

\* log.py 490-493: two independent ifs, the second assignment overwrites
RequestFormat(kvp) ==
    LET f1 == Get(kvp, "format", None)
    IN  Get(kvp, "outputformat", f1)

\* log.py 499-503
layer_keys == <<"layer", "layers", "typename", "coverageid">>

RequestResource(kvp) ==
    LET present == {n \in 1..Len(layer_keys) : layer_keys[n] \in DOMAIN kvp}
    IN  IF present = {} THEN None
        ELSE kvp[layer_keys[CHOOSE n \in present : \A m \in present : n <= m]]

\* log.py 476-505, on the dict of the query
ParsedRequest(base, kvp) ==
    [baseurl |-> base,
     kvp |-> kvp,
     service |-> Get(kvp, "service", None),
     version |-> Get(kvp, "version", None),
     styles |-> Get(kvp, "styles", None),
     crs |-> RequestCrs(kvp),
     ows_resource |-> RequestResource(kvp),
     ows_request |-> Get(kvp, "request", None),
     format |-> RequestFormat(kvp),
     identifier |-> Get(kvp, "identifier", None)]

\* log.py 462-468: the text before the first "?" and the text after it
BaseUrl(url) == IF Contains(url, "?") THEN SplitOnce(url, "?")[1] ELSE url
QueryOf(url) == IF Contains(url, "?") THEN SplitOnce(url, "?")[2] ELSE ""

\* log.py 445-505: parse_request(url_request)
parse_request(url_request) ==
    ParsedRequest(BaseUrl(url_request), KvpDict(KvpPairs(QueryOf(url_request))))

\* the record has no attribute `resource` (hasattr(r, 'resource') is false)
NoAttribute == "<no attribute>"

\* (mutant) the endpoint is looked for as the whole request
EndpointNotEqual(request, ep) ==
    ep # None /\ request # ep

\* log.py 185: the endpoint filter rejects the request
EndpointMismatch(request, ep) ==
    ep # None /\ ~StartsWith(request, ep)

\* (mutant) a request without a service value is rejected too
ServiceMismatchOrAbsent(service, stype) ==
    /\ stype # None
    /\ stype \in DOMAIN SERVICE_TYPES
    /\ SERVICE_TYPES[stype] # service

\* log.py 204-207: the service filter rejects the parsed service
ServiceMismatch(service, stype) ==
    /\ stype # None
    /\ stype \in DOMAIN SERVICE_TYPES
    /\ service # None
    /\ SERVICE_TYPES[stype] # service

\* log.py 192-210: the record, once the request is parsed
OWSBuild(lr, pr, stype, class, resource) ==
    IF ServiceMismatch(pr.service, stype) THEN Raised("NotFoundError")
    ELSE [raised |-> None,
          class |-> class,
          resource |-> resource,
          ip_number |-> lr.ip_number,
          remote_host_ip |-> lr.remote_host_ip,
          datetime |-> lr.datetime,
          timezone |-> lr.timezone,
          request_type |-> lr.request_type,
          request |-> lr.request,
          protocol |-> lr.protocol,
          status_code |-> lr.status_code,
          size |-> lr.size,
          referer |-> lr.referer,
          user_agent |-> lr.user_agent,
          baseurl |-> pr.baseurl,
          service |-> pr.service,
          version |-> pr.version,
          ows_request |-> pr.ows_request,
          identifier |-> pr.identifier,
          styles |-> pr.styles,
          crs |-> pr.crs,
          format |-> pr.format,
          ows_resource |-> pr.ows_resource,
          kvp |-> pr.kvp]

\* log.py 176-210, on the outcome of LogRecord.__init__
OWSFrom(lr, ep, stype, class, resource) ==
    IF lr.raised # None THEN Raised("NotFoundError")
    ELSE IF EndpointMismatch(lr.request, ep) THEN Raised("NotFoundError")
    ELSE OWSBuild(lr, parse_request(lr.request), stype, class, resource)

\* log.py 139-210: OWSLogRecord.__init__; `resource` is the attribute a
\* subclass has set before it calls this initializer
OWSInit(ln, ep, stype, class, resource) ==
    OWSFrom(LogRecord(ln), ep, stype, class, resource)

OWSLogRecord(ln, ep, stype) ==
    OWSInit(ln, ep, stype, "OWSLogRecord", NoAttribute)

\* log.py 216-231
WMSLogRecord(ln, ep) ==
    OWSInit(ln, ep, "OGC:WMS", "WMSLogRecord", "layers")

\* the ows_request of a WPS record (log.py 245-247)
WPSRequest(request_type, ows_request) ==
    IF request_type = "POST" THEN "Execute" ELSE ows_request

\* log.py 242-247, on the outcome of OWSLogRecord.__init__
WPSFrom(r) ==
    IF r.raised # None THEN r
    ELSE [r EXCEPT !.ows_request = WPSRequest(r.request_type, r.ows_request)]

\* log.py 237-247
WPSLogRecord(ln, ep) ==
    WPSFrom(OWSInit(ln, ep, "OGC:WPS", "WPSLogRecord", "identifier"))

\* log.py 256-259: the if/else that follows the first `if`
GetRecordSecond(first, ln, ep, stype) ==
    IF first.raised # None THEN first
    ELSE IF stype = "OGC:WPS" THEN WPSLogRecord(ln, ep)
    ELSE OWSLogRecord(ln, ep, stype)

\* log.py 254-255: the WMS record built first, when one is asked for
GetRecordFirst(ln, ep, stype) ==
    IF stype = "OGC:WMS" THEN WMSLogRecord(ln, ep) ELSE [raised |-> None]

\* log.py 253-260: the first `if` is followed by an independent if/else, so
\* the WMS record built first is replaced by the generic record of the else
get_record(ln, ep, stype) ==
    GetRecordSecond(GetRecordFirst(ln, ep, stype), ln, ep, stype)

\* the all-null location the function starts with (log_es.py 675-682); it is
\* no row of any table (-1 stands for the absent value, row bounds are >= 0)
NullLocation == [ipnum_start |-> -1, ipnum_end |-> -1]

\* the state of locateIP while another component is examined
LocateIdle ==
    /\ IP2LOCATION = <<>>
    /\ ip_number = 0
    /\ i = 0
    /\ i_min = 0
    /\ i_max = 0
    /\ lpc = "idle"
    /\ location = NullLocation

\* the state of Analyzer while another component is examined
AnalyzerIdle ==
    /\ records = <<>>
    /\ resolve_ips = FALSE
    /\ apc = "idle"
    /\ pos = 0
    /\ analyzer = <<>>

\* the state of test_time while another component is examined
TimeIdle ==
    /\ intime = <<>>
    /\ times = <<>>
    /\ datetype = ""
    /\ tpc = "idle"
    /\ result = FALSE

\* the state of index() while another component is examined
PipelineIdle ==
    /\ globbed = <<>>
    /\ cfg = <<>>
    /\ run = "idle"
    /\ ipc = "idle"
    /\ logfiles = <<>>
    /\ logtrack = <<>>
    /\ fpos = 0
    /\ lpos = 0
    /\ linesparsed = 0
    /\ pending = <<>>
    /\ base_yyyymmdd = ""
    /\ store = {}
    /\ auto_id = 0
    /\ stats = {}
    /\ events = <<>>
    /\ faults = 0
    /\ first_count = 0

(***************************************************************************)
(* Record construction from one line                                       *)
(***************************************************************************)
\* the state of record construction while another component is examined
RecordIdle ==
    /\ made = <<>>
    /\ line = ""
    /\ endpoint = None
    /\ service_type = None
    /\ rpc = "idle"
    /\ rec = Raised(None)

\* dotted quads, as their four numbers
Quads == {<<172, 217, 15, 110>>, <<23, 78, 198, 125>>, <<131, 235, 251, 154>>,
          <<0, 0, 0, 0>>, <<255, 255, 255, 255>>, <<10, 0, 200, 9>>}

\* a.b.c.d
Dotted(q) == ToDec(q[1]) \o "." \o ToDec(q[2]) \o "." \o ToDec(q[3]) \o "." \o ToDec(q[4])

\* host tokens that ipaddress.IPv4Address rejects
InvalidHosts == {"256.1.1.1", "1.2.3", "1.2.3.4.5", "1.2.3.x", "1..2.3",
                 "localhost", "::1", "-"}

\* timestamp tokens (after the "[") that strptime accepts, and that it rejects
ValidTs == {"23/Jan/2018:13:09:45", "1/feb/2018:1:2:3"}
InvalidTs == {"31/Feb/2018:13:09:45", "23/Jan/2018", "23/Foo/2018:13:09:45",
              "2018-01-23T13:09:45"}

\* offset tokens (before the "]"): signed hours and minutes, and others
ValidOffsets == {"+0000", "-0500", "+0530"}
InvalidOffsets == {"UTC", "+9x00", "0000", "+00:00"}

\* status and size tokens that int() accepts, and that it rejects
IntTokens == {"200", "404", "101395", "-5"}
NonIntTokens == {"abc", "5x", "-"}

\* the request lines: verb, request, and the values the request carries for
\* the keys service and request (None when the key is absent)
Requests == {
    [verb |-> "GET", service |-> "WMS", reqkey |-> "GetCapabilities",
     request |-> "/geomet/?service=WMS&version=1.3.0&request=GetCapabilities"],
    [verb |-> "GET", service |-> "WMS", reqkey |-> "GetMap",
     request |-> "/geomet?SERVICE=WMS&REQUEST=GetMap&LAYERS=a%2Cb&CRS=EPSG%3A4326&FORMAT=image/png"],
    [verb |-> "GET", service |-> "WFS", reqkey |-> "GetFeature",
     request |-> "/geomet?service=WFS&request=GetFeature&typename=t&format=json&outputFormat=gml"],
    [verb |-> "POST", service |-> "WPS", reqkey |-> None,
     request |-> "/geomet?service=WPS&identifier=p"],
    [verb |-> "POST", service |-> "WPS", reqkey |-> "DescribeProcess",
     request |-> "/geomet?service=WPS&request=DescribeProcess&identifier=p"],
    [verb |-> "GET", service |-> "WPS", reqkey |-> None,
     request |-> "/geomet?service=WPS&identifier=p"],
    [verb |-> "GET", service |-> "wms", reqkey |-> "GetMap",
     request |-> "/geomet2?service=wms&request=GetMap&layer=x&layers=y"],
    [verb |-> "GET", service |-> None, reqkey |-> None,
     request |-> "/geomet"],
    [verb |-> "GET", service |-> "", reqkey |-> "GetMap",
     request |-> "/other/?request=GetMap&service="],
    [verb |-> "GET", service |-> "WCS", reqkey |-> "GetCoverage",
     request |-> "/geomet?service=WCS&request=GetCoverage&coverageid=c&subsettingcrs=EPSG%3A4326"]}

\* user agents of one word and of four words
Agents == {"curl/7.1", "Mozilla/5.0 (X11; Linux) Firefox/57.0"}

\* a combined-format line put together from its parts
MkLine(m) ==
    m.host \o " - - [" \o m.ts \o " " \o m.tz \o "] \"" \o m.verb \o " " \o m.request
      \o " HTTP/1.1\" " \o m.status \o " " \o m.size \o " \"-\" \"" \o m.agent \o "\""

\* the first n tokens of such a line
Truncate(l, n) == Join(SubSeq(SplitWS(l), 1, n), " ")

\* the number of tokens of a line made with the given user agent
TokensWith(agent) == 11 + Len(Split(agent, " "))

Made(host, quad, ts, r, status, size, agent) ==
    [host |-> host, quad |-> quad, ts |-> ts, verb |-> r.verb,
     request |-> r.request, service |-> r.service, reqkey |-> r.reqkey,
     status |-> status, size |-> size, agent |-> agent,
     tz |-> "+0000", ntokens |-> TokensWith(agent)]

BaseRequest ==
    CHOOSE r \in Requests : r.reqkey = "GetCapabilities"

BaseMade ==
    Made("131.235.251.154", <<131, 235, 251, 154>>, "23/Jan/2018:13:09:45",
         BaseRequest, "200", "101395", "Mozilla/5.0 (X11; Linux) Firefox/57.0")

\* the inputs: every host; every timestamp with every status and size and
\* both agents; every request; every number of tokens from 0 to MaxTokens;
\* every offset
Inputs ==
    {[BaseMade EXCEPT !.host = Dotted(q), !.quad = q] : q \in Quads}
    \cup {[BaseMade EXCEPT !.host = h, !.quad = <<>>] : h \in InvalidHosts}
    \cup {Made(BaseMade.host, BaseMade.quad, ts, BaseRequest, st, sz, a) :
            ts \in ValidTs \cup InvalidTs,
            st \in IntTokens \cup NonIntTokens,
            sz \in IntTokens \cup NonIntTokens,
            a \in Agents}
    \cup {Made(BaseMade.host, BaseMade.quad, BaseMade.ts, r, "200", "101395", "curl/7.1") :
            r \in Requests}
    \cup {[BaseMade EXCEPT !.ntokens = n] : n \in 0..MaxTokens}
    \cup {[BaseMade EXCEPT !.tz = o] : o \in ValidOffsets \cup InvalidOffsets}

\* the line of an input: its parts, cut to the input's number of tokens
LineOf(m) == Truncate(MkLine(m), m.ntokens)

Endpoints == {None, "/geomet", "/geomet2"}

ServiceTypes == {None, "OGC:WMS", "OGC:WFS", "OGC:WPS", "OGC:WCS"}

InitRecord ==
    /\ LocateIdle
    /\ AnalyzerIdle
    /\ PipelineIdle
    /\ TimeIdle
    /\ made \in Inputs
    /\ line = LineOf(made)
    /\ endpoint \in Endpoints
    /\ service_type \in ServiceTypes
    /\ rpc = "input"
    /\ rec = Raised(None)

NewLogRecord ==
    /\ rpc = "input"
    /\ rpc' = "LogRecord"
    /\ rec' = LogRecord(line)
    /\ UNCHANGED <<made, line, endpoint, service_type>>
    /\ UNCHANGED notRecordVars

NewOWSLogRecord ==
    /\ rpc = "input"
    /\ rpc' = "OWSLogRecord"
    /\ rec' = OWSLogRecord(line, endpoint, service_type)
    /\ UNCHANGED <<made, line, endpoint, service_type>>
    /\ UNCHANGED notRecordVars

NewWMSLogRecord ==
    /\ rpc = "input"
    /\ rpc' = "WMSLogRecord"
    /\ rec' = WMSLogRecord(line, endpoint)
    /\ UNCHANGED <<made, line, endpoint, service_type>>
    /\ UNCHANGED notRecordVars

NewWPSLogRecord ==
    /\ rpc = "input"
    /\ rpc' = "WPSLogRecord"
    /\ rec' = WPSLogRecord(line, endpoint)
    /\ UNCHANGED <<made, line, endpoint, service_type>>
    /\ UNCHANGED notRecordVars

GetRecord ==
    /\ rpc = "input"
    /\ rpc' = "get_record"
    /\ rec' = get_record(line, endpoint, service_type)
    /\ UNCHANGED <<made, line, endpoint, service_type>>
    /\ UNCHANGED notRecordVars

NextRecord ==
    \/ NewLogRecord
    \/ NewOWSLogRecord
    \/ NewWMSLogRecord
    \/ NewWPSLogRecord
    \/ GetRecord

SpecRecord == InitRecord /\ [][NextRecord]_vars

(***************************************************************************)
(* locateIP  (log_es.py 672-713)                                           *)
(***************************************************************************)
\* one row of the table built by parse_ip2location (log_es.py 723-732),
\* which reads the two bounds as they stand in the CSV file and does not
\* compare them: a row of a damaged file may have ipnum_start > ipnum_end.
\* The text and coordinate columns are carried by the row's identity.
Rows == [ipnum_start : 0..MaxIp, ipnum_end : 0..MaxIp]

Lo(r) == IF r.ipnum_start <= r.ipnum_end THEN r.ipnum_start ELSE r.ipnum_end
Hi(r) == IF r.ipnum_start <= r.ipnum_end THEN r.ipnum_end ELSE r.ipnum_start

\* the rows come in ascending order and do not overlap
SortedTable(t) == \A k \in 1..(Len(t) - 1) : Hi(t[k]) < Lo(t[k + 1])

\* every row is a closed interval [ipnum_start, ipnum_end]
WellFormed(t) == \A k \in 1..Len(t) : t[k].ipnum_start <= t[k].ipnum_end

\* the sorted tables of n rows, each a sorted table of n - 1 rows and one more
RECURSIVE TablesOfLen(_)
TablesOfLen(n) ==
    IF n = 0 THEN {<<>>}
    ELSE {t \in {Append(s, r) : s \in TablesOfLen(n - 1), r \in Rows} : SortedTable(t)}

Tables == UNION {TablesOfLen(n) : n \in 0..MaxRows}

\* the address lies in the closed interval of row k (1-based)
InRow(t, ip, k) == t[k].ipnum_start <= ip /\ ip <= t[k].ipnum_end

\* no row of the table holds the address
Uncovered(t, ip) == \A k \in 1..Len(t) : ~InRow(t, ip, k)

\* IP2LOCATION[k] with the code's 0-based index
Row(k) == IP2LOCATION[k + 1]

\* math.ceil(x / 2) and math.floor(x / 2) for x >= 0
CeilHalf(x) == (x + 1) \div 2
FloorHalf(x) == x \div 2

InitLocate ==
    /\ RecordIdle
    /\ AnalyzerIdle
    /\ PipelineIdle
    /\ TimeIdle
    /\ IP2LOCATION \in Tables
    /\ ip_number \in 0..(MaxIp + 1)
    /\ i = 0
    /\ i_min = 0
    /\ i_max = 0
    /\ lpc = "call"
    /\ location = NullLocation

\* (mutant) the start of the search without the shortcut for address 0
LocateEnterSearchesZero ==
    /\ lpc = "call"
    /\ IF Len(IP2LOCATION) = 0
         THEN /\ lpc' = "done"
              /\ location' = NullLocation
              /\ UNCHANGED <<i, i_min, i_max>>
         ELSE /\ lpc' = "loop"
              /\ i' = CeilHalf(Len(IP2LOCATION))
              /\ i_min' = 0
              /\ i_max' = Len(IP2LOCATION) - 1
              /\ UNCHANGED location
    /\ UNCHANGED <<IP2LOCATION, ip_number>>
    /\ UNCHANGED notLocateVars

\* log_es.py 684-695: the two shortcuts, then the start of the search
LocateEnter ==
    /\ lpc = "call"
    /\ IF Len(IP2LOCATION) = 0
         THEN /\ lpc' = "done"
              /\ location' = NullLocation
              /\ UNCHANGED <<i, i_min, i_max>>
         ELSE IF ip_number = 0
           THEN /\ lpc' = "done"
                /\ location' = IP2LOCATION[1]
                /\ UNCHANGED <<i, i_min, i_max>>
           ELSE /\ lpc' = "loop"
                /\ i' = CeilHalf(Len(IP2LOCATION))
                /\ i_min' = 0
                /\ i_max' = Len(IP2LOCATION) - 1
                /\ UNCHANGED location
    /\ UNCHANGED <<IP2LOCATION, ip_number>>
    /\ UNCHANGED notLocateVars

\* log_es.py 699: IP2LOCATION[i] with i past the end raises IndexError
LocateIndexError ==
    /\ lpc = "loop"
    /\ i >= Len(IP2LOCATION)
    /\ lpc' = "raised"
    /\ UNCHANGED <<IP2LOCATION, ip_number, i, i_min, i_max, location>>
    /\ UNCHANGED notLocateVars

\* log_es.py 699-701: the probed row holds the address
LocateFound ==
    /\ lpc = "loop"
    /\ i < Len(IP2LOCATION)
    /\ ip_number >= Row(i).ipnum_start /\ ip_number <= Row(i).ipnum_end
    /\ lpc' = "done"
    /\ location' = Row(i)
    /\ UNCHANGED <<IP2LOCATION, ip_number, i, i_min, i_max>>
    /\ UNCHANGED notLocateVars

\* the index probed next when the address lies above row i (log_es.py 704)
Bigger(idx, imax) == CeilHalf(idx + imax)

\* the index probed next when the address lies below row i (log_es.py 707)
Smaller(idx, imin) == FloorHalf(idx + imin)

\* log_es.py 702-704
LocateBigger ==
    /\ lpc = "loop"
    /\ i < Len(IP2LOCATION)
    /\ ~(ip_number >= Row(i).ipnum_start /\ ip_number <= Row(i).ipnum_end)
    /\ ip_number >= Row(i).ipnum_start /\ ip_number > Row(i).ipnum_end
    /\ i_min' = i
    /\ i' = Bigger(i, i_max)
    /\ UNCHANGED <<IP2LOCATION, ip_number, i_max, lpc, location>>
    /\ UNCHANGED notLocateVars

\* log_es.py 705-707
LocateSmaller ==
    /\ lpc = "loop"
    /\ i < Len(IP2LOCATION)
    /\ ~(ip_number >= Row(i).ipnum_start /\ ip_number <= Row(i).ipnum_end)
    /\ ~(ip_number >= Row(i).ipnum_start /\ ip_number > Row(i).ipnum_end)
    /\ ip_number < Row(i).ipnum_start /\ ip_number <= Row(i).ipnum_end
    /\ i_max' = i
    /\ i' = Smaller(i, i_min)
    /\ UNCHANGED <<IP2LOCATION, ip_number, i_min, lpc, location>>
    /\ UNCHANGED notLocateVars

\* log_es.py 708-713: no branch applies, the loop ends and the all-null
\* location is returned
LocateNotFound ==
    /\ lpc = "loop"
    /\ i < Len(IP2LOCATION)
    /\ ~(ip_number >= Row(i).ipnum_start /\ ip_number <= Row(i).ipnum_end)
    /\ ~(ip_number >= Row(i).ipnum_start /\ ip_number > Row(i).ipnum_end)
    /\ ~(ip_number < Row(i).ipnum_start /\ ip_number <= Row(i).ipnum_end)
    /\ lpc' = "done"
    /\ location' = NullLocation
    /\ UNCHANGED <<IP2LOCATION, ip_number, i, i_min, i_max>>
    /\ UNCHANGED notLocateVars

NextLocate ==
    \/ LocateEnter
    \/ LocateIndexError
    \/ LocateFound
    \/ LocateBigger
    \/ LocateSmaller
    \/ LocateNotFound

SpecLocate == InitLocate /\ [][NextLocate]_vars

\* the interpreter keeps executing the loop while it has a next step
FairLocate == SpecLocate /\ WF_vars(NextLocate)

(***************************************************************************)
(* Analyzer  (log.py 263-362)                                              *)
(***************************************************************************)
\* a dict is kept as the sequence of its <<key, value>> items in insertion
\* order, the order in which Python iterates it
HasKey(d, key) == \E n \in 1..Len(d) : d[n][1] = key

\* d[key] += 1 when the key is there, d[key] = 1 otherwise
Incr(d, key) ==
    IF HasKey(d, key)
      THEN [n \in 1..Len(d) |-> IF d[n][1] = key THEN <<key, d[n][2] + 1>> ELSE d[n]]
      ELSE Append(d, <<key, 1>>)

\* log.py 338-350: the same for unique_ips, whose value is a count and the
\* hostname found when the key was first seen
IncrIp(d, key, hostname) ==
    IF HasKey(d, key)
      THEN [n \in 1..Len(d) |->
              IF d[n][1] = key
                THEN <<key, [count |-> d[n][2].count + 1, hostname |-> d[n][2].hostname]>>
                ELSE d[n]]
      ELSE Append(d, <<key, [count |-> 1, hostname |-> hostname]>>)

\* (mutant) every record counts as a request
CountsEveryRecord(r) == TRUE

\* log.py 309: the record counts as an OWS request
CountsAsRequest(r) == r.ows_request # None

\* log.py 325-327: the KVP key that names the resource of the record
ResourceKey(r) == IF r.resource # NoAttribute THEN r.resource ELSE "layers"

\* log.py 274-293: the attributes of a new Analyzer
NewAnalyzer ==
    [start |-> NoDatetime, end |-> NoDatetime, requests |-> <<>>,
     total_requests |-> 0, total_size |-> 0, unique_ips |-> <<>>,
     resources |-> <<>>, user_agents |-> <<>>]

\* log.py 304: min(item.datetime for item in records)
MinDatetime(rs) ==
    rs[CHOOSE n \in 1..Len(rs) : \A m \in 1..Len(rs) : DtLeq(rs[n].datetime, rs[m].datetime)].datetime

\* (mutant) the datetime of the last record
LastDatetime(rs) == rs[Len(rs)].datetime

\* log.py 305: max(item.datetime for item in records)
MaxDatetime(rs) ==
    rs[CHOOSE n \in 1..Len(rs) : \A m \in 1..Len(rs) : DtLeq(rs[m].datetime, rs[n].datetime)].datetime

\* log.py 307-350: one turn of the loop, for record r; hostname is what the
\* lookup gave when r's address was not yet a key of unique_ips
AnalyzeOne(a, r, hostname) ==
    [a EXCEPT
       !.requests = IF CountsAsRequest(r) THEN Incr(@, r.ows_request) ELSE @,
       !.total_size = @ + r.size,
       !.user_agents = Incr(@, r.user_agent),
       !.resources = IF ResourceKey(r) \in DOMAIN r.kvp
                       THEN Incr(@, r.kvp[ResourceKey(r)]) ELSE @,
       !.unique_ips = IncrIp(@, r.remote_host_ip, hostname)]

\* sum(item for item in self.requests.values())
RECURSIVE SumValues(_)
SumValues(d) == IF d = <<>> THEN 0 ELSE d[1][2] + SumValues(Tail(d))

\* (mutant) the new item goes before the items of the same count
InsertDescFirst(s, e) ==
    LET before == Cardinality({n \in 1..Len(s) : s[n][2] > e[2]})
    IN  SubSeq(s, 1, before) \o <<e>> \o SubSeq(s, before + 1, Len(s))

\* the place of a new <<item, count>> in a list sorted by descending count:
\* behind every item whose count is not smaller, so that the sort is stable
InsertDesc(s, e) ==
    LET before == Cardinality({n \in 1..Len(s) : s[n][2] >= e[2]})
    IN  SubSeq(s, 1, before) \o <<e>> \o SubSeq(s, before + 1, Len(s))

RECURSIVE SortDesc(_, _)
SortDesc(d, n) ==
    IF n = 0 THEN <<>>
    ELSE InsertDesc(SortDesc(d, n - 1), d[n])

\* the items of a sorted list of <<item, count>>
Items(s) == [n \in 1..Len(s) |-> s[n][1]]

\* sorted(d.items(), key=lambda x: x[1], reverse=True)  (log.py 355-362)
SortedByCount(d) ==
    Items(SortDesc([n \in 1..Len(d) |-> <<d[n], d[n][2]>>], Len(d)))

\* sorted(d.items(), key=lambda x: x[1]['count'], reverse=True)
SortedByIpCount(d) ==
    Items(SortDesc([n \in 1..Len(d) |-> <<d[n], d[n][2].count>>], Len(d)))

\* log.py 352-362: what follows the loop
Finish(a) ==
    [a EXCEPT
       !.total_requests = SumValues(a.requests),
       !.requests = SortedByCount(@),
       !.resources = SortedByCount(@),
       !.unique_ips = SortedByIpCount(@),
       !.user_agents = SortedByCount(@)]

\* log.py 304-305
Started(rs) ==
    [NewAnalyzer EXCEPT !.start = MinDatetime(rs), !.end = MaxDatetime(rs)]

\* log.py 307-350: the loop over the first n records, without lookups
RECURSIVE Looped(_, _)
Looped(rs, n) ==
    IF n = 0 THEN Started(rs)
    ELSE AnalyzeOne(Looped(rs, n - 1), rs[n], None)

\* log.py 265-362: Analyzer(records), resolve_ips left at False
Analyzer(rs) ==
    IF Len(rs) = 0 THEN NewAnalyzer ELSE Finish(Looped(rs, Len(rs)))

\* the records handed to Analyzer: each is built from a line by get_record
\* or by a record class
Req(verb, reqkey, service) ==
    CHOOSE r \in Requests : r.verb = verb /\ r.reqkey = reqkey /\ r.service = service

AnalyzerInputs == {
    [build |-> "get_record", stype |-> "OGC:WMS",
     m |-> Made("131.235.251.154", <<131, 235, 251, 154>>, "23/Jan/2018:13:09:45",
                Req("GET", "GetMap", "WMS"), "200", "101395", "curl/7.1")],
    [build |-> "WMSLogRecord", stype |-> "OGC:WMS",
     m |-> Made("10.0.200.9", <<10, 0, 200, 9>>, "1/feb/2018:1:2:3",
                Req("GET", "GetMap", "WMS"), "200", "200", "curl/7.1")],
    [build |-> "get_record", stype |-> "OGC:WPS",
     m |-> Made("23.78.198.125", <<23, 78, 198, 125>>, "1/feb/2018:1:2:3",
                Req("POST", None, "WPS"), "200", "-",
                "Mozilla/5.0 (X11; Linux) Firefox/57.0")],
    [build |-> "get_record", stype |-> "OGC:WPS",
     m |-> Made("131.235.251.154", <<131, 235, 251, 154>>, "1/feb/2018:1:2:3",
                Req("GET", None, "WPS"), "200", "404", "curl/7.1")],
    [build |-> "get_record", stype |-> None,
     m |-> Made("::1", <<>>, "23/Jan/2018:13:09:45",
                Req("GET", None, None), "404", "-5", "curl/7.1")],
    [build |-> "get_record", stype |-> "OGC:WFS",
     m |-> Made("0.0.0.0", <<0, 0, 0, 0>>, "23/Jan/2018:13:09:45",
                Req("GET", "GetFeature", "WFS"), "200", "200",
                "Mozilla/5.0 (X11; Linux) Firefox/57.0")]}

BuiltRecord(p) ==
    IF p.build = "WMSLogRecord" THEN WMSLogRecord(LineOf(p.m), None)
    ELSE get_record(LineOf(p.m), None, p.stype)

RecordPool == {BuiltRecord(p) : p \in AnalyzerInputs}

\* what socket.gethostbyaddr may do for an address: give a host name, raise
\* socket.herror, or raise another error
Lookups == {"host.example.org", "herror", "gaierror"}

InitAnalyzer ==
    /\ LocateIdle
    /\ RecordIdle
    /\ PipelineIdle
    /\ TimeIdle
    /\ records \in UNION {[1..n -> RecordPool] : n \in 0..MaxRecords}
    /\ resolve_ips \in BOOLEAN
    /\ apc = "call"
    /\ pos = 0
    /\ analyzer = NewAnalyzer

\* log.py 274-305
AnalyzeEnter ==
    /\ apc = "call"
    /\ IF Len(records) = 0
         THEN /\ analyzer' = NewAnalyzer
              /\ apc' = "done"
              /\ pos' = pos
         ELSE /\ analyzer' = Started(records)
              /\ apc' = "loop"
              /\ pos' = 1
    /\ UNCHANGED <<records, resolve_ips>>
    /\ UNCHANGED notAnalyzerVars

\* the address of the record is looked up: resolve_ips is set and the
\* address is not yet a key of unique_ips (log.py 340-342)
LooksUp(r) == resolve_ips /\ ~HasKey(analyzer.unique_ips, r.remote_host_ip)

\* log.py 307-350: one turn of the loop, no lookup
AnalyzeRecord ==
    /\ apc = "loop"
    /\ pos <= Len(records)
    /\ ~LooksUp(records[pos])
    /\ analyzer' = AnalyzeOne(analyzer, records[pos], None)
    /\ pos' = pos + 1
    /\ UNCHANGED <<records, resolve_ips, apc>>
    /\ UNCHANGED notAnalyzerVars

\* log.py 307-350: one turn of the loop; the lookup gives a name or raises
\* socket.herror, which leaves the hostname None
AnalyzeResolve ==
    /\ apc = "loop"
    /\ pos <= Len(records)
    /\ LooksUp(records[pos])
    /\ records[pos].remote_host_ip # None
    /\ \E out \in Lookups \ {"gaierror"} :
          analyzer' = AnalyzeOne(analyzer, records[pos],
                                 IF out = "herror" THEN None ELSE out)
    /\ pos' = pos + 1
    /\ UNCHANGED <<records, resolve_ips, apc>>
    /\ UNCHANGED notAnalyzerVars

\* log.py 343-347: the lookup raises something else than socket.herror (a
\* TypeError when the address is None), which nothing catches
AnalyzeLookupRaises ==
    /\ apc = "loop"
    /\ pos <= Len(records)
    /\ LooksUp(records[pos])
    /\ apc' = "raised"
    /\ UNCHANGED <<records, resolve_ips, pos, analyzer>>
    /\ UNCHANGED notAnalyzerVars

\* log.py 352-362
AnalyzeFinish ==
    /\ apc = "loop"
    /\ pos > Len(records)
    /\ analyzer' = Finish(analyzer)
    /\ apc' = "done"
    /\ UNCHANGED <<records, resolve_ips, pos>>
    /\ UNCHANGED notAnalyzerVars

NextAnalyzer ==
    \/ AnalyzeEnter
    \/ AnalyzeRecord
    \/ AnalyzeResolve
    \/ AnalyzeLookupRaises
    \/ AnalyzeFinish

SpecAnalyzer == InitAnalyzer /\ [][NextAnalyzer]_vars


(***************************************************************************)
(* The indexing pipeline: index(), log_to_index()  (log_es.py)             *)
(***************************************************************************)
\* an option that is not given (its value is None)
NotGiven == -1

\* dt + timedelta(days=1), dt - timedelta(days=1)
NextDay(dt) ==
    IF dt.day < DaysInMonth(dt.year, dt.month) THEN [dt EXCEPT !.day = @ + 1]
    ELSE IF dt.month < 12 THEN [dt EXCEPT !.month = @ + 1, !.day = 1]
    ELSE [dt EXCEPT !.year = @ + 1, !.month = 1, !.day = 1]

PrevDay(dt) ==
    IF dt.day > 1 THEN [dt EXCEPT !.day = @ - 1]
    ELSE IF dt.month > 1
      THEN [dt EXCEPT !.month = @ - 1, !.day = DaysInMonth(dt.year, dt.month - 1)]
    ELSE [dt EXCEPT !.year = @ - 1, !.month = 12, !.day = 31]

\* dt - timedelta(days=n), n >= 0
RECURSIVE DaysBefore(_, _)
DaysBefore(dt, n) == IF n = 0 THEN dt ELSE DaysBefore(PrevDay(dt), n - 1)

\* dt.strftime('%Y-%m-%d')
strftimeYmd(dt) ==
    Pad(dt.year, 4) \o "-" \o Pad(dt.month, 2) \o "-" \o Pad(dt.day, 2)

\* log_es.py 889-898: the YYYYMMDD* part of a file name of the form
\* /p1/p2/p3/server.d0.d1.d2.d3-YYYYMMDD*.gz
get_logfile_datetime_str(logfile_name) ==
    Split(Split(Split(logfile_name, "/")[5], ".")[5], "-")[2]

\* log_es.py 900-907
get_yyyymmdd_str(log_yyyymmdd) ==
    SubSeq(log_yyyymmdd, 1, IF Len(log_yyyymmdd) < 8 THEN Len(log_yyyymmdd) ELSE 8)

\* datetime.strptime(s, '%Y%m%d') for a string of eight digits
StrptimeYmd(s) ==
    DateTime(DecValue(SubSeq(s, 1, 4)), DecValue(SubSeq(s, 5, 6)),
             DecValue(SubSeq(s, 7, 8)), 0, 0, 0)

\* log_es.py 909-916
get_logfile_date(logfile_name) ==
    StrptimeYmd(get_yyyymmdd_str(get_logfile_datetime_str(logfile_name)))

\* a < b on strings of digits, as Python compares str
RECURSIVE StrLess(_, _)
StrLess(a, b) ==
    IF Len(b) = 0 THEN FALSE
    ELSE IF Len(a) = 0 THEN TRUE
    ELSE IF CharAt(a, 1) = CharAt(b, 1) THEN StrLess(From(a, 2), From(b, 2))
    ELSE DecValue(CharAt(a, 1)) < DecValue(CharAt(b, 1))

\* the place of a file name in a list sorted by ascending key: behind every
\* name whose key is not greater (list.sort is stable)
InsertAsc(s, f) ==
    LET before == Cardinality({n \in 1..Len(s) :
                      ~StrLess(get_logfile_datetime_str(f),
                               get_logfile_datetime_str(s[n]))})
    IN  SubSeq(s, 1, before) \o <<f>> \o SubSeq(s, before + 1, Len(s))

\* logfiles.sort(key=get_logfile_datetime_str)  (log_es.py 1026)
RECURSIVE SortedFiles(_, _)
SortedFiles(fs, n) ==
    IF n = 0 THEN <<>> ELSE InsertAsc(SortedFiles(fs, n - 1), fs[n])

\* the same with reverse=True: behind every name whose key is not smaller
InsertDescKey(s, f) ==
    LET before == Cardinality({n \in 1..Len(s) :
                      ~StrLess(get_logfile_datetime_str(s[n]),
                               get_logfile_datetime_str(f))})
    IN  SubSeq(s, 1, before) \o <<f>> \o SubSeq(s, before + 1, Len(s))

RECURSIVE ReverseSortedFiles(_, _)
ReverseSortedFiles(fs, n) ==
    IF n = 0 THEN <<>> ELSE InsertDescKey(ReverseSortedFiles(fs, n - 1), fs[n])

\* the items of a sequence that satisfy a test, in order
RECURSIVE OfLatestDay(_, _)
OfLatestDay(fs, day) ==
    IF fs = <<>> THEN <<>>
    ELSE IF get_yyyymmdd_str(get_logfile_datetime_str(Head(fs))) = day
      THEN <<Head(fs)>> \o OfLatestDay(Tail(fs), day)
    ELSE OfLatestDay(Tail(fs), day)

\* log_es.py 918-931, on the list sorted in reverse
LatestOf(rev) ==
    OfLatestDay(rev, get_yyyymmdd_str(get_logfile_datetime_str(rev[1])))

get_latest_logs(fs) == LatestOf(ReverseSortedFiles(fs, Len(fs)))

\* log_es.py 849-856; sha256 is taken as one-to-one on the strings hashed
xstr(s) == IF s = None THEN "" ELSE s

createHashId(lr) ==
    "sha256:" \o xstr(lr.remote_host_ip) \o xstr(isoformat(lr.datetime))
      \o xstr(lr.request)

\* the ID Elasticsearch gives the n-th document sent without an ID
AutoId(n) == "auto-" \o ToDec(n)

\* log_es.py 785-798: the document of a record, under the ID given; its
\* version is set by the store
DocOf(lr, id) ==
    [id |-> id, version |-> 1, remote_host_ip |-> lr.remote_host_ip,
     datetime |-> lr.datetime, request |-> lr.request]

\* the documents of the store that have the ID
WithId(st, id) == {d \in st : d.id = id}

\* (mutant) the store keeps the document of the same ID beside the new one
PutBeside(st, doc) ==
    st \cup {[doc EXCEPT !.version = Cardinality(WithId(st, doc.id)) + 1]}

\* the store after one index operation: a document of the same ID is
\* replaced, and the version counts the operations on the ID
Put(st, doc) ==
    (st \ WithId(st, doc.id)) \cup
      {[doc EXCEPT !.version =
          IF WithId(st, doc.id) = {} THEN 1
          ELSE (CHOOSE d \in WithId(st, doc.id) : TRUE).version + 1]}

\* log_es.py 794-795: the ID of the k-th document of a batch
IdOf(lr, create_id, auto, k) ==
    IF create_id THEN createHashId(lr) ELSE AutoId(auto + k)

\* es.bulk of a batch, of which the operations in `failed` are refused
RECURSIVE Bulk(_, _, _, _, _, _)
Bulk(st, batch, create_id, auto, failed, k) ==
    IF k = 0 THEN st
    ELSE IF k \in failed THEN Bulk(st, batch, create_id, auto, failed, k - 1)
    ELSE Put(Bulk(st, batch, create_id, auto, failed, k - 1),
             DocOf(batch[k], IdOf(batch[k], create_id, auto, k)))

\* the documents a range query on properties.datetime matches: gte, lt
InRange(st, gte, lt) == {d \in st : DtLeq(gte, d.datetime) /\ DtLess(d.datetime, lt)}

\* log_es.py 858-878 called with date_from None: what delete_by_query leaves
Purged(st, date_to) == {d \in st : ~DtLess(d.datetime, date_to)}

\* (mutant) the rollup waits for a file dated after the threshold
RollupDueAfter(file_datetime, threshold, filename, last) ==
    DtLess(threshold, file_datetime) \/ filename = last

\* log_es.py 1163
RollupDue(file_datetime, threshold, filename, last) ==
    DtLeq(threshold, file_datetime) \/ filename = last

\* log_es.py 1028-1034
NewLogtrack ==
    [last_filename_datetime |-> NoDatetime, base_filename_datetime |-> NoDatetime,
     start_date_daily |-> NoDatetime, end_date_daily |-> NoDatetime,
     threshold_date |-> NoDatetime]

\* (mutant) every file sets the window from its own date
InitializedEveryFile(lt, fd) ==
    [lt EXCEPT !.base_filename_datetime = fd,
               !.start_date_daily = PrevDay(fd),
               !.end_date_daily = fd,
               !.threshold_date = NextDay(fd)]

\* log_es.py 1119-1123
Initialized(lt, file_datetime) ==
    IF lt.base_filename_datetime = NoDatetime
      THEN [lt EXCEPT !.base_filename_datetime = file_datetime,
                      !.start_date_daily = PrevDay(file_datetime),
                      !.end_date_daily = file_datetime,
                      !.threshold_date = NextDay(file_datetime)]
      ELSE lt

\* (mutant) the window is set from the date of the file
AdvancedToFile(lt, fd) ==
    [lt EXCEPT !.base_filename_datetime = fd,
               !.start_date_daily = fd,
               !.end_date_daily = NextDay(fd),
               !.threshold_date = NextDay(fd)]

\* log_es.py 1231-1234
Advanced(lt, file_datetime) ==
    [lt EXCEPT !.base_filename_datetime = lt.end_date_daily,
               !.start_date_daily = lt.end_date_daily,
               !.end_date_daily = NextDay(lt.end_date_daily),
               !.threshold_date = NextDay(file_datetime)]

\* ---- the inputs of a run ----
\* the lines found in the log files
PipeLine(host, ts) ==
    MkLine(Made(host, <<>>, ts, BaseRequest, "200", "101395", "curl/7.1"))

Line22 == PipeLine("131.235.251.154", "22/Jan/2018:23:59:59")
Line23 == PipeLine("23.78.198.125", "23/Jan/2018:00:00:00")
Line23a == PipeLine("131.235.251.154", "23/Jan/2018:13:09:45")
Line23v6 == PipeLine("::1", "23/Jan/2018:13:09:45")
Line24 == PipeLine("23.78.198.125", "24/Jan/2018:08:00:00")
Line26 == PipeLine("131.235.251.154", "26/Jan/2018:10:00:00")
LineBad == "131.235.251.154 - - [23/Jan/2018:13:09:45 +0000] \"-\" 408 -"

FilePrefix == "/data/geomet/logs/access_server_01.collab.science.gc.ca-"

\* the files the pattern may match, and their lines
LogFileLines ==
    [f \in {FilePrefix \o d \o ".gz" :
              d \in {"20180123", "20180124", "2018012412", "20180125", "20180127"}} |->
        CASE f = FilePrefix \o "20180123.gz" -> <<Line22, LineBad, Line23>>
          [] f = FilePrefix \o "20180124.gz" -> <<Line23a, Line23a>>
          [] f = FilePrefix \o "2018012412.gz" -> <<Line24>>
          [] f = FilePrefix \o "20180125.gz" -> <<Line23v6, Line24, Line24>>
          [] f = FilePrefix \o "20180127.gz" -> <<Line26>>]

LogFileNames == DOMAIN LogFileLines

\* OWSLogRecord(line) for each line of the files (log_es.py 1135)
ParsedLine ==
    [l \in UNION {{LogFileLines[f][n] : n \in 1..Len(LogFileLines[f])} : f \in LogFileNames} |->
        OWSLogRecord(l, None, None)]

\* what glob.glob returns: up to MaxFiles of the files, in some order
RECURSIVE AsSeq(_)
AsSeq(S) ==
    IF S = {} THEN <<>>
    ELSE LET f == CHOOSE x \in S : \A y \in S :
                    ~StrLess(get_logfile_datetime_str(x), get_logfile_datetime_str(y))
         IN  <<f>> \o AsSeq(S \ {f})

Globs == {AsSeq(S) : S \in {T \in SUBSET LogFileNames : Cardinality(T) <= MaxFiles}}

\* the options of the command
Configs ==
    [bulk_size : {1, 2}, skip_daily_stats : BOOLEAN, keep_log_days : {NotGiven, 0, 1},
     cutoff : {NotGiven, 1}, create_id : BOOLEAN, latest_day : BOOLEAN]

\* one thing the run has asked of the store ("bulk", "query", "stats",
\* "purge") or has reported ("warning", "failed")
Event(op, n, start, end, key) ==
    [op |-> op, file |-> fpos, n |-> n, start |-> start, end |-> end, key |-> key]

InitPipeline ==
    /\ LocateIdle
    /\ RecordIdle
    /\ AnalyzerIdle
    /\ TimeIdle
    /\ globbed \in Globs
    /\ cfg \in Configs
    /\ run = "first"
    /\ ipc = "start"
    /\ logfiles = <<>>
    /\ logtrack = NewLogtrack
    /\ fpos = 0
    /\ lpos = 0
    /\ linesparsed = 0
    /\ pending = <<>>
    /\ base_yyyymmdd = ""
    /\ store = {}
    /\ auto_id = 0
    /\ stats = {}
    /\ events = <<>>
    /\ faults = 0
    /\ first_count = NotGiven

\* what a run leaves alone: the inputs and the store
runInputs == <<globbed, cfg, run>>

\* the file being read, its date, its lines
filename == logfiles[fpos]
file_datetime == get_logfile_date(filename)
FileLinesNow == LogFileLines[filename]

\* log_es.py 996-1034: the files are sorted, the state is set up
IndexStart ==
    /\ ipc = "start"
    /\ logfiles' = IF cfg.latest_day /\ Len(globbed) > 0
                     THEN get_latest_logs(SortedFiles(globbed, Len(globbed)))
                     ELSE SortedFiles(globbed, Len(globbed))
    /\ logtrack' = NewLogtrack
    /\ fpos' = 1
    /\ ipc' = IF Len(globbed) > 0 THEN "open" ELSE "done"
    /\ first_count' = IF Len(globbed) = 0 /\ run = "first" THEN Cardinality(store)
                      ELSE first_count
    /\ UNCHANGED <<runInputs, lpos, linesparsed, pending, base_yyyymmdd, store,
                   auto_id, stats, events, faults>>
    /\ UNCHANGED notPipelineVars

\* log_es.py 1100-1131: the next file is opened
OpenFile ==
    /\ ipc = "open"
    /\ fpos <= Len(logfiles)
    /\ logtrack' = Initialized(logtrack, file_datetime)
    /\ base_yyyymmdd' = strftimeYmd(Initialized(logtrack, file_datetime).start_date_daily)
    /\ pending' = <<>>
    /\ lpos' = 1
    /\ linesparsed' = 0
    /\ ipc' = "lines"
    /\ UNCHANGED <<runInputs, logfiles, fpos, store, auto_id, stats, events, faults,
                   first_count>>
    /\ UNCHANGED notPipelineVars

\* the record the line at lpos gives
parsed == ParsedLine[FileLinesNow[lpos]]

\* log_es.py 1147-1152: where the loop goes on after an accepted line
AfterLine ==
    IF cfg.cutoff # NotGiven /\ linesparsed + 1 >= cfg.cutoff
      THEN Len(FileLinesNow) + 1
      ELSE lpos + 1

\* log_es.py 1134-1138: the line gives no record
ReadRejected ==
    /\ ipc = "lines"
    /\ lpos <= Len(FileLinesNow)
    /\ parsed.raised # None
    /\ lpos' = lpos + 1
    /\ UNCHANGED <<runInputs, ipc, logfiles, logtrack, fpos, linesparsed, pending,
                   base_yyyymmdd, store, auto_id, stats, events, faults, first_count>>
    /\ UNCHANGED notPipelineVars

\* log_es.py 1140-1152: the record joins a batch that stays below bulk_size
ReadAccepted ==
    /\ ipc = "lines"
    /\ lpos <= Len(FileLinesNow)
    /\ parsed.raised = None
    /\ Len(pending) + 1 < cfg.bulk_size
    /\ pending' = Append(pending, parsed)
    /\ linesparsed' = linesparsed + 1
    /\ lpos' = AfterLine
    /\ UNCHANGED <<runInputs, ipc, logfiles, logtrack, fpos, base_yyyymmdd, store,
                   auto_id, stats, events, faults, first_count>>
    /\ UNCHANGED notPipelineVars

\* log_es.py 810-812, 818-819: LOGGER.warning(getErrors(res)) when the
\* response of es.bulk has errors
Warned(failed) ==
    IF failed = {} THEN <<>>
    ELSE <<Event("warning", Cardinality(failed), NoDatetime, NoDatetime, "")>>

\* log_to_index(batch): one es.bulk call, of which Elasticsearch refuses the
\* operations in `failed` (log_es.py 764-825)
Written(batch, failed) ==
    /\ faults + (IF failed = {} THEN 0 ELSE 1) <= MaxFaults
    /\ store' = Bulk(store, batch, cfg.create_id, auto_id, failed, Len(batch))
    /\ auto_id' = IF cfg.create_id THEN auto_id ELSE auto_id + Len(batch)
    /\ faults' = faults + (IF failed = {} THEN 0 ELSE 1)
    /\ events' = Append(events, Event("bulk", Len(batch), NoDatetime, NoDatetime, ""))
                   \o Warned(failed)

\* (mutant) a batch of which the store refuses an operation ends the run
ReadAcceptedFlushAborts ==
    /\ ipc = "lines"
    /\ lpos <= Len(FileLinesNow)
    /\ parsed.raised = None
    /\ Len(pending) + 1 >= cfg.bulk_size
    /\ \E failed \in SUBSET (1..(Len(pending) + 1)) :
          /\ Written(Append(pending, parsed), failed)
          /\ ipc' = IF failed = {} THEN ipc ELSE "aborted"
    /\ pending' = <<>>
    /\ linesparsed' = linesparsed + 1
    /\ lpos' = AfterLine
    /\ UNCHANGED <<runInputs, logfiles, logtrack, fpos, base_yyyymmdd, stats,
                   first_count>>
    /\ UNCHANGED notPipelineVars

\* (mutant) the batch is written and kept
ReadAcceptedFlushKeepsBatch ==
    /\ ipc = "lines"
    /\ lpos <= Len(FileLinesNow)
    /\ parsed.raised = None
    /\ Len(pending) + 1 >= cfg.bulk_size
    /\ \E failed \in SUBSET (1..(Len(pending) + 1)) :
          Written(Append(pending, parsed), failed)
    /\ pending' = Append(pending, parsed)
    /\ linesparsed' = linesparsed + 1
    /\ lpos' = AfterLine
    /\ UNCHANGED <<runInputs, ipc, logfiles, logtrack, fpos, base_yyyymmdd, stats,
                   first_count>>
    /\ UNCHANGED notPipelineVars

\* log_es.py 1140-1152: the record fills the batch, which is written
ReadAcceptedFlush ==
    /\ ipc = "lines"
    /\ lpos <= Len(FileLinesNow)
    /\ parsed.raised = None
    /\ Len(pending) + 1 >= cfg.bulk_size
    /\ \E failed \in SUBSET (1..(Len(pending) + 1)) :
          Written(Append(pending, parsed), failed)
    /\ pending' = <<>>
    /\ linesparsed' = linesparsed + 1
    /\ lpos' = AfterLine
    /\ UNCHANGED <<runInputs, ipc, logfiles, logtrack, fpos, base_yyyymmdd, stats,
                   first_count>>
    /\ UNCHANGED notPipelineVars

\* (mutant) the rest of the batch is left unwritten at the end of the file
FlushRemainderSkipped ==
    /\ ipc = "lines"
    /\ lpos > Len(FileLinesNow)
    /\ Len(pending) >= 1
    /\ logtrack' = [logtrack EXCEPT !.last_filename_datetime = file_datetime]
    /\ ipc' = "rollup"
    /\ UNCHANGED <<runInputs, logfiles, fpos, lpos, linesparsed, pending,
                   base_yyyymmdd, store, auto_id, stats, events, faults, first_count>>
    /\ UNCHANGED notPipelineVars

\* log_es.py 1153-1157: the lines are read, the rest of the batch is written
FlushRemainder ==
    /\ ipc = "lines"
    /\ lpos > Len(FileLinesNow)
    /\ Len(pending) >= 1
    /\ \E failed \in SUBSET (1..Len(pending)) : Written(pending, failed)
    /\ pending' = pending
    /\ logtrack' = [logtrack EXCEPT !.last_filename_datetime = file_datetime]
    /\ ipc' = "rollup"
    /\ UNCHANGED <<runInputs, logfiles, fpos, lpos, linesparsed, base_yyyymmdd,
                   stats, first_count>>
    /\ UNCHANGED notPipelineVars

\* log_es.py 1153-1157: the lines are read, the batch is empty
NoRemainder ==
    /\ ipc = "lines"
    /\ lpos > Len(FileLinesNow)
    /\ Len(pending) = 0
    /\ logtrack' = [logtrack EXCEPT !.last_filename_datetime = file_datetime]
    /\ ipc' = "rollup"
    /\ UNCHANGED <<runInputs, logfiles, fpos, lpos, linesparsed, pending,
                   base_yyyymmdd, store, auto_id, stats, events, faults, first_count>>
    /\ UNCHANGED notPipelineVars

\* log_to_index raises: es.bulk fails to reach the store, or locateIP raises
\* for the record (log_es.py 1144, 1155); nothing in index() catches it
WriteRaises ==
    /\ ipc = "lines"
    /\ \/ /\ lpos <= Len(FileLinesNow)
          /\ parsed.raised = None
          /\ Len(pending) + 1 >= cfg.bulk_size
       \/ /\ lpos > Len(FileLinesNow)
          /\ Len(pending) >= 1
    /\ ipc' = "aborted"
    /\ UNCHANGED <<runInputs, logfiles, logtrack, fpos, lpos, linesparsed, pending,
                   base_yyyymmdd, store, auto_id, stats, events, faults, first_count>>
    /\ UNCHANGED notPipelineVars

\* (mutant) the rollup is due whether or not daily stats are skipped
DueThoughSkipped ==
    RollupDue(file_datetime, logtrack.threshold_date, filename,
              logfiles[Len(logfiles)])

\* the rollup is due at the end of this file (log_es.py 1161-1163)
Due ==
    /\ ~cfg.skip_daily_stats
    /\ RollupDue(file_datetime, logtrack.threshold_date, filename,
                 logfiles[Len(logfiles)])

\* log_es.py 1161-1163: no rollup at the end of this file
NoRollup ==
    /\ ipc = "rollup"
    /\ ~Due
    /\ fpos' = fpos + 1
    /\ ipc' = "open"
    /\ UNCHANGED <<runInputs, logfiles, logtrack, lpos, linesparsed, pending,
                   base_yyyymmdd, store, auto_id, stats, events, faults, first_count>>
    /\ UNCHANGED notPipelineVars

\* the query of the rollup, the stats document and the purge, as events
QueryEvent ==
    Event("query", Cardinality(InRange(store, logtrack.start_date_daily,
                                       logtrack.end_date_daily)),
          logtrack.start_date_daily, logtrack.end_date_daily, base_yyyymmdd)
StatsEvent == Event("stats", 0, NoDatetime, NoDatetime, base_yyyymmdd)
PurgeBefore == DaysBefore(logtrack.base_filename_datetime, cfg.keep_log_days)
PurgeEvent == Event("purge", 0, NoDatetime, PurgeBefore, "")
\* log_es.py 1226-1228: 'Failed to query daily stats for <date>'
FailedEvent == Event("failed", 0, NoDatetime, NoDatetime, base_yyyymmdd)

\* (mutant) a stats document is added beside the one of the same date
StatsPutBeside(st, doc) == st \cup {doc}

\* log_es.py 1204: es.index(..., id=base_yyyymmdd): the stats document of the
\* same date is replaced
StatsPut(st, doc) == {s \in st : s.date # doc.date} \cup {doc}

\* log_es.py 1164-1234: the query succeeds; the stats document is written
\* (or its write is reported unsuccessful), old records are purged when
\* keep_log_days is given, the window moves on
RollupSucceeds ==
    /\ ipc = "rollup"
    /\ Due
    /\ \E written \in BOOLEAN :
          /\ faults + (IF written THEN 0 ELSE 1) <= MaxFaults
          /\ faults' = faults + (IF written THEN 0 ELSE 1)
          /\ stats' = IF written
                        THEN StatsPut(stats,
                               [date |-> base_yyyymmdd,
                                total_requests |->
                                  Cardinality(InRange(store, logtrack.start_date_daily,
                                                      logtrack.end_date_daily))])
                        ELSE stats
    /\ store' = IF cfg.keep_log_days # NotGiven THEN Purged(store, PurgeBefore)
                ELSE store
    /\ events' = events \o <<QueryEvent, StatsEvent>>
                   \o (IF cfg.keep_log_days # NotGiven THEN <<PurgeEvent>> ELSE <<>>)
    /\ logtrack' = Advanced(logtrack, file_datetime)
    /\ fpos' = fpos + 1
    /\ ipc' = "open"
    /\ UNCHANGED <<runInputs, logfiles, lpos, linesparsed, pending, base_yyyymmdd,
                   auto_id, first_count>>
    /\ UNCHANGED notPipelineVars

\* (mutant) after a query that failed the window stays where it is
RollupFailsKeepsWindow ==
    /\ ipc = "rollup"
    /\ Due
    /\ faults < MaxFaults
    /\ faults' = faults + 1
    /\ events' = events \o <<QueryEvent, FailedEvent>>
    /\ fpos' = fpos + 1
    /\ ipc' = "open"
    /\ UNCHANGED <<runInputs, logfiles, logtrack, lpos, linesparsed, pending,
                   base_yyyymmdd, store, auto_id, stats, first_count>>
    /\ UNCHANGED notPipelineVars

\* log_es.py 1176, 1226-1234: the query reports no successful shard; the
\* window moves on all the same
RollupFails ==
    /\ ipc = "rollup"
    /\ Due
    /\ faults < MaxFaults
    /\ faults' = faults + 1
    /\ events' = events \o <<QueryEvent, FailedEvent>>
    /\ logtrack' = Advanced(logtrack, file_datetime)
    /\ fpos' = fpos + 1
    /\ ipc' = "open"
    /\ UNCHANGED <<runInputs, logfiles, lpos, linesparsed, pending, base_yyyymmdd,
                   store, auto_id, stats, first_count>>
    /\ UNCHANGED notPipelineVars

\* es.indices.refresh, es.search, es.index or delete_by_query raises
\* (log_es.py 1173-1217); nothing in index() catches it
RollupRaises ==
    /\ ipc = "rollup"
    /\ Due
    /\ ipc' = "aborted"
    /\ UNCHANGED <<runInputs, logfiles, logtrack, fpos, lpos, linesparsed, pending,
                   base_yyyymmdd, store, auto_id, stats, events, faults, first_count>>
    /\ UNCHANGED notPipelineVars

\* log_es.py 1236-1240: every file is done
IndexFinish ==
    /\ ipc = "open"
    /\ fpos > Len(logfiles)
    /\ ipc' = "done"
    /\ first_count' = IF run = "first" THEN Cardinality(store) ELSE first_count
    /\ UNCHANGED <<runInputs, logfiles, logtrack, fpos, lpos, linesparsed, pending,
                   base_yyyymmdd, store, auto_id, stats, events, faults>>
    /\ UNCHANGED notPipelineVars

\* the command is given once more, with the same pattern and options, after
\* a run in which the store refused nothing; the store is what that run left
Rerun ==
    /\ ipc = "done"
    /\ run = "first"
    /\ faults = 0
    /\ run' = "second"
    /\ ipc' = "start"
    /\ logfiles' = <<>>
    /\ logtrack' = NewLogtrack
    /\ fpos' = 0
    /\ lpos' = 0
    /\ linesparsed' = 0
    /\ pending' = <<>>
    /\ base_yyyymmdd' = ""
    /\ events' = <<>>
    /\ UNCHANGED <<globbed, cfg, store, auto_id, stats, faults, first_count>>
    /\ UNCHANGED notPipelineVars

NextPipeline ==
    \/ IndexStart
    \/ OpenFile
    \/ ReadRejected
    \/ ReadAccepted
    \/ ReadAcceptedFlush
    \/ FlushRemainder
    \/ NoRemainder
    \/ WriteRaises
    \/ NoRollup
    \/ RollupSucceeds
    \/ RollupFails
    \/ RollupRaises
    \/ IndexFinish
    \/ Rerun

SpecPipeline == InitPipeline /\ [][NextPipeline]_vars



(***************************************************************************)
(* test_time  (log.py 394-425)                                             *)
(***************************************************************************)
\* dt.date(), kept as the datetime of that day's midnight
DateOf(dt) == DateTime(dt.year, dt.month, dt.day, 0, 0, 0)

\* (mutant) lo <= x < hi
BetweenHalfOpen(x, lo, hi) == DtLeq(lo, x) /\ DtLess(x, hi)

\* log.py 417, 421-422: x <= hi and x >= lo
Between(x, lo, hi) == DtLeq(x, hi) /\ DtLeq(lo, x)

\* log.py 408-413: one bound
InstantTest(t, bound, dtype) ==
    IF dtype = "datetime" THEN t = bound ELSE DateOf(t) = DateOf(bound)

\* log.py 414-423: the first two bounds of a list that has not one bound
RangeTest(t, lo, hi, dtype) ==
    IF dtype = "datetime" THEN Between(t, lo, hi)
    ELSE Between(DateOf(t), DateOf(lo), DateOf(hi))

\* the datetimes tested and the bounds
TimePool ==
    {DateTime(2011, 11, d, h, h, h) : d \in {10, 11, 12}, h \in {0, 11}}
      \cup {DateTime(2010, 12, 11, 11, 11, 11), DateTime(2012, 1, 1, 0, 0, 0)}

InitTime ==
    /\ LocateIdle
    /\ RecordIdle
    /\ AnalyzerIdle
    /\ PipelineIdle
    /\ intime \in TimePool
    /\ times \in UNION {[1..n -> TimePool] : n \in 0..MaxBounds}
    /\ datetype \in {"date", "datetime"}
    /\ tpc = "call"
    /\ result = FALSE

\* log.py 406-413: a list of one bound
TestInstant ==
    /\ tpc = "call"
    /\ Len(times) = 1
    /\ result' = InstantTest(intime, times[1], datetype)
    /\ tpc' = "done"
    /\ UNCHANGED <<intime, times, datetype>>
    /\ UNCHANGED notTimeVars

\* log.py 414-425: any other list, of which times[0] and times[1] are read
TestRange ==
    /\ tpc = "call"
    /\ Len(times) >= 2
    /\ result' = RangeTest(intime, times[1], times[2], datetype)
    /\ tpc' = "done"
    /\ UNCHANGED <<intime, times, datetype>>
    /\ UNCHANGED notTimeVars

\* log.py 417, 421: the list is empty and times[1] raises IndexError
TestRaises ==
    /\ tpc = "call"
    /\ Len(times) = 0
    /\ tpc' = "raised"
    /\ UNCHANGED <<intime, times, datetype, result>>
    /\ UNCHANGED notTimeVars

NextTime ==
    \/ TestInstant
    \/ TestRange
    \/ TestRaises

SpecTime == InitTime /\ [][NextTime]_vars

(***************************************************************************)
(* Claims about record construction                                        *)
(***************************************************************************)
\* the input has what LogRecord needs: twelve tokens or more, a timestamp
\* strptime accepts, an integer status, a size that is an integer or "-"
Parseable(m) ==
    /\ m.ntokens >= 12
    /\ m.ts \in ValidTs
    /\ m.status \in IntTokens
    /\ m.size \in IntTokens \cup {"-"}

\* the endpoint filter e lets the request through
EndpointPasses(request, e) == e = None \/ StartsWith(request, e)

\* the service filter t disagrees with the service value the request carries
FilterDisagrees(service, t) ==
    \/ t = "OGC:WMS" /\ service # None /\ service # "WMS"
    \/ t = "OGC:WFS" /\ service # None /\ service # "WFS"
    \/ t = "OGC:WPS" /\ service # None /\ service # "WPS"

\* C5: LogRecord(line) returns a record exactly when the line has at least 12
\* tokens, a timestamp of the form DD/Mon/YYYY:HH:MM:SS, an integer status and
\* a size that is an integer or "-"; otherwise it raises NotFoundError and
\* returns no record; the record's request is the request token of the line.
C5_LogRecordConstruction ==
    rpc = "LogRecord" =>
        /\ (rec.raised = None) <=> Parseable(made)
        /\ (rec.raised # None => rec = Raised("NotFoundError"))
        /\ (rec.raised = None => rec.request = made.request)

C5_Witness ==
    /\ rpc = "LogRecord"
    /\ made.ntokens = 12
    /\ made.size = "-"
    /\ rec.raised = None
    /\ rec.request = made.request

\* C6: dot2longip maps a valid dotted quad a.b.c.d to a*2^24 + b*2^16 + c*2^8
\* + d, that is the number whose upper half is a*2^8 + b and whose lower half
\* is c*2^8 + d (172.217.15.110 gives 2899906414 = 44249 * 2^16 + 3950,
\* 23.78.198.125 gives 391038589 = 5966 * 2^16 + 50813), and an empty or
\* invalid host to 0; an invalid host does not make LogRecord fail.
C6_Dot2LongIp ==
    /\ dot2longip("") = IpZero
    /\ (rpc = "LogRecord" /\ Parseable(made)) =>
        /\ rec.raised = None
        /\ made.quad # <<>> =>
              rec.ip_number = IpNumber(made.quad[1] * 256 + made.quad[2],
                                       made.quad[3] * 256 + made.quad[4])
        /\ made.host = "172.217.15.110" => rec.ip_number = IpNumber(44249, 3950)
        /\ made.host = "23.78.198.125" => rec.ip_number = IpNumber(5966, 50813)
        /\ made.host \in InvalidHosts => rec.ip_number = IpZero

C6_Witness ==
    /\ rpc = "LogRecord"
    /\ made.host = "172.217.15.110"
    /\ rec.raised = None
    /\ rec.ip_number = IpNumber(44249, 3950)

\* C7: for a line LogRecord accepts and the service filter does not reject,
\* construction of an OWS record with an endpoint fails with NotFoundError
\* exactly when the request does not start with the endpoint, and never for
\* the endpoint when none is given; so the endpoint /geomet2 refuses every
\* request that starts with /geomet but not with /geomet2.
C7_EndpointFilter ==
    (rpc = "OWSLogRecord" /\ Parseable(made)) =>
        /\ ~FilterDisagrees(made.service, service_type) =>
              ((rec.raised # None) <=> ~EndpointPasses(made.request, endpoint))
        /\ ~EndpointPasses(made.request, endpoint) => rec = Raised("NotFoundError")
        /\ endpoint = None => (rec.raised # None =>
                                 FilterDisagrees(made.service, service_type))

C7_Witness ==
    /\ rpc = "OWSLogRecord"
    /\ service_type = None
    /\ endpoint = "/geomet2"
    /\ StartsWith(made.request, "/geomet")
    /\ ~StartsWith(made.request, "/geomet2")
    /\ rec = Raised("NotFoundError")

\* C8: for a line LogRecord accepts and the endpoint filter lets through,
\* construction of an OWS record with a service-type filter fails with
\* NotFoundError exactly when the filter is OGC:WMS, OGC:WFS or OGC:WPS and the
\* request carries a service value other than WMS, WFS or WPS respectively;
\* so the filter OGC:WFS refuses every request with service=WMS.
C8_ServiceFilter ==
    (rpc = "OWSLogRecord" /\ Parseable(made)
       /\ EndpointPasses(made.request, endpoint)) =>
        /\ (rec.raised # None) <=> FilterDisagrees(made.service, service_type)
        /\ (rec.raised # None => rec = Raised("NotFoundError"))
        /\ (service_type = "OGC:WFS" /\ made.service = "WMS") => rec.raised # None

C8_Witness ==
    /\ rpc = "OWSLogRecord"
    /\ endpoint = None
    /\ service_type = "OGC:WFS"
    /\ made.service = "WMS"
    /\ rec = Raised("NotFoundError")

\* C16: a WPS record that was built has ows_request 'Execute' when the verb
\* is POST and the query has no request= key, the value of request= when the
\* key is present, whatever the verb, and no ows_request when the verb is not
\* POST and the key is absent.
C16_WpsRequest ==
    (rpc = "WPSLogRecord" /\ rec.raised = None) =>
        /\ (made.verb = "POST" /\ made.reqkey = None) => rec.ows_request = "Execute"
        /\ made.reqkey # None => rec.ows_request = made.reqkey
        /\ (made.verb # "POST" /\ made.reqkey = None) => rec.ows_request = None

\* C20: the format parse_request gives a record is the value of the `format`
\* key when the query has one, the value of `outputformat` only when the query
\* has no `format` key, and nothing when it has neither.
C20_FormatWins ==
    (rpc = "OWSLogRecord" /\ rec.raised = None) =>
        LET kvp == rec.kvp
        IN  /\ "format" \in DOMAIN kvp => rec.format = kvp["format"]
            /\ ("format" \notin DOMAIN kvp /\ "outputformat" \in DOMAIN kvp)
                  => rec.format = kvp["outputformat"]
            /\ ("format" \notin DOMAIN kvp /\ "outputformat" \notin DOMAIN kvp)
                  => rec.format = None

\* an offset as the access log writes it: a sign, two digits of hours and two
\* of minutes
OffsetParses(s) ==
    /\ Len(s) = 5
    /\ CharAt(s, 1) \in {"+", "-"}
    /\ AllDigits(From(s, 2))

\* C25: no record is built from a line whose UTC-offset token does not parse:
\* the timezone of every record that was built is a well-formed offset.
C25_OffsetMustParse ==
    (rpc # "input" /\ rec.raised = None) => OffsetParses(rec.timezone)

\* C27: the size of every record that was built is a non-negative integer,
\* and it is 0 when the size token of the line is "-".
C27_SizeNonNegative ==
    (rpc # "input" /\ rec.raised = None) =>
        /\ rec.size \in Nat
        /\ made.size = "-" => rec.size = 0

\* C28: the record get_record returns is of the variant of the service type
\* asked for: the WMS variant, with resource key layers, for OGC:WMS; the WPS
\* variant, with resource key identifier and a POST counted as Execute, for
\* OGC:WPS; the generic OWS record, with no resource key, for any other.
C28_VariantByServiceType ==
    (rpc = "get_record" /\ rec.raised = None) =>
        /\ service_type = "OGC:WMS" =>
              /\ rec.class = "WMSLogRecord"
              /\ rec.resource = "layers"
        /\ service_type = "OGC:WPS" =>
              /\ rec.class = "WPSLogRecord"
              /\ rec.resource = "identifier"
              /\ rec.request_type = "POST" => rec.ows_request = "Execute"
        /\ service_type \notin {"OGC:WMS", "OGC:WPS"} =>
              /\ rec.class = "OWSLogRecord"
              /\ rec.resource = NoAttribute

(***************************************************************************)
(* Claims about locateIP                                                   *)
(***************************************************************************)
\* C1: for a non-empty table of sorted, non-overlapping closed intervals and a
\* non-zero address that lies in row k, locateIP does not raise and returns
\* exactly row k.
C1_LocateReturnsRow ==
    \A k \in 1..Len(IP2LOCATION) :
        (/\ WellFormed(IP2LOCATION)
         /\ ip_number # 0
         /\ InRow(IP2LOCATION, ip_number, k))
        => /\ lpc # "raised"
           /\ (lpc = "done" => location = IP2LOCATION[k])

\* C2: for a non-empty well-formed table and a non-zero address that no row
\* holds, locateIP terminates and returns the all-null location.
C2_GapTerminatesNotFound ==
    (/\ Len(IP2LOCATION) > 0
     /\ WellFormed(IP2LOCATION)
     /\ ip_number # 0
     /\ Uncovered(IP2LOCATION, ip_number))
    => <>(lpc = "done" /\ location = NullLocation)

\* C12: for address 0 and a non-empty table locateIP never enters its search
\* loop and returns the first row of the table with the search indices
\* untouched; for an empty table it never enters the loop either and returns
\* the all-null location, whatever the address, 0 included.
C12_Shortcuts ==
    /\ (ip_number = 0 /\ Len(IP2LOCATION) > 0) =>
          /\ lpc \in {"call", "done"}
          /\ <<i, i_min, i_max>> = <<0, 0, 0>>
          /\ lpc = "done" => location = IP2LOCATION[1]
    /\ Len(IP2LOCATION) = 0 =>
          /\ lpc \in {"call", "done"}
          /\ <<i, i_min, i_max>> = <<0, 0, 0>>
          /\ location = NullLocation

\* address 0 has been answered with the first row of a table of which no row
\* holds address 0
C12_Witness ==
    /\ lpc = "done"
    /\ ip_number = 0
    /\ Len(IP2LOCATION) > 1
    /\ Uncovered(IP2LOCATION, 0)
    /\ location = IP2LOCATION[1]

\* C21: for a non-empty table of sorted closed intervals, every iteration of
\* the search either returns (the row found or the all-null location) or goes
\* on with a strictly narrower range i_min..i_max and another index i; it
\* never raises.
C21_WindowShrinks ==
    [][(lpc = "loop" /\ WellFormed(IP2LOCATION)) =>
          /\ lpc' # "raised"
          /\ lpc' = "loop" =>
                /\ i_max' - i_min' < i_max - i_min
                /\ i' # i]_vars


(***************************************************************************)
(* Claims about Analyzer                                                   *)
(***************************************************************************)
\* the sum of the sizes of the first n records
RECURSIVE SumSizes(_, _)
SumSizes(rs, n) == IF n = 0 THEN 0 ELSE rs[n].size + SumSizes(rs, n - 1)

\* the <<key, count>> pairs of a frequency table
Counts(t) == {<<t[n][1], t[n][2]>> : n \in 1..Len(t)}
IpCounts(t) == {<<t[n][1], t[n][2].count>> : n \in 1..Len(t)}

\* C9: once Analyzer has returned, total_size is the sum of the records'
\* sizes, total_requests the number of records whose ows_request is present,
\* start and end the least and the greatest datetime of the records,
\* unique_ips has one entry for each distinct client address of the records
\* and its counts add up to the number of records; for no records start and
\* end are None, the totals 0, the tables empty; without lookups Analyzer
\* never raises.
C9_AnalyzerReference ==
    /\ (~resolve_ips \/ Len(records) = 0) => apc # "raised"
    /\ apc = "done" =>
        /\ analyzer.total_size = SumSizes(records, Len(records))
        /\ analyzer.total_requests =
              Cardinality({n \in 1..Len(records) : records[n].ows_request # None})
        /\ {analyzer.unique_ips[n][1] : n \in 1..Len(analyzer.unique_ips)}
              = {records[n].remote_host_ip : n \in 1..Len(records)}
        /\ \A n \in 1..Len(analyzer.unique_ips) :
              analyzer.unique_ips[n][2].count =
                Cardinality({m \in 1..Len(records) :
                               records[m].remote_host_ip = analyzer.unique_ips[n][1]})
        /\ Len(analyzer.unique_ips) =
              Cardinality({records[n].remote_host_ip : n \in 1..Len(records)})
        /\ IF Len(records) = 0
             THEN /\ analyzer.start = NoDatetime
                  /\ analyzer.end = NoDatetime
                  /\ analyzer.total_size = 0
                  /\ analyzer.total_requests = 0
                  /\ analyzer.requests = <<>>
                  /\ analyzer.resources = <<>>
                  /\ analyzer.user_agents = <<>>
                  /\ analyzer.unique_ips = <<>>
             ELSE /\ \E n \in 1..Len(records) : analyzer.start = records[n].datetime
                  /\ \E n \in 1..Len(records) : analyzer.end = records[n].datetime
                  /\ \A n \in 1..Len(records) :
                        /\ DtLeq(analyzer.start, records[n].datetime)
                        /\ DtLeq(records[n].datetime, analyzer.end)

\* Analyzer has returned for records of which some are no OWS request and
\* some share their client address
C9_Witness ==
    /\ apc = "done"
    /\ Len(records) >= 3
    /\ 0 < analyzer.total_requests
    /\ analyzer.total_requests < Len(records)
    /\ 1 < Len(analyzer.unique_ips)
    /\ Len(analyzer.unique_ips) < Len(records)
    /\ analyzer.start # analyzer.end

\* the same records in another order
Permuted(rs, p) == [n \in 1..Len(rs) |-> rs[p[n]]]

\* the totals and the per-key counts of an Analyzer
Totals(a) ==
    [total_requests |-> a.total_requests, total_size |-> a.total_size,
     start |-> a.start, end |-> a.end,
     requests |-> Counts(a.requests), resources |-> Counts(a.resources),
     user_agents |-> Counts(a.user_agents), unique_ips |-> IpCounts(a.unique_ips)]

\* C10: once Analyzer has returned, its totals, start, end and per-key
\* counts are those Analyzer computes for every permutation of the records.
C10_PermutationInvariant ==
    apc = "done" =>
        \A p \in Permutations(1..Len(records)) :
            Totals(Analyzer(Permuted(records, p))) = Totals(analyzer)

\* Analyzer has returned for records that are not in the order of their
\* datetimes and whose keys are first seen in another order when reversed
C10_Witness ==
    /\ apc = "done"
    /\ Len(records) >= 3
    /\ DtLess(records[Len(records)].datetime, records[1].datetime)
    /\ records[1].remote_host_ip # records[2].remote_host_ip
    /\ records[1].user_agent # records[Len(records)].user_agent

\* the KVP key that names the resource of a record of each service variant
VariantKey(r) ==
    CASE r.service = "WMS" -> "layers"
      [] r.service = "WFS" -> "typename"
      [] r.service = "WPS" -> "identifier"
      [] OTHER -> "layers"

\* the records counted under a resource name, each by the key of its variant
CountedUnder(name) ==
    {n \in 1..Len(records) :
        /\ VariantKey(records[n]) \in DOMAIN records[n].kvp
        /\ records[n].kvp[VariantKey(records[n])] = name}

\* the resource names the records carry under the key of their variant
ResourceNames ==
    {records[n].kvp[VariantKey(records[n])] :
        n \in {k \in 1..Len(records) : VariantKey(records[k]) \in DOMAIN records[k].kvp}}

\* C22: once Analyzer has returned, the resources table has one entry for each
\* resource name that a record carries under the key of its service variant
\* (layers for WMS, typename for WFS, identifier for WPS), with the number of
\* such records as its count.
C22_ResourceByVariant ==
    apc = "done" =>
        Counts(analyzer.resources) =
            {<<name, Cardinality(CountedUnder(name))>> : name \in ResourceNames}

\* C23: with resolve_ips set, Analyzer never ends by raising, whatever the
\* lookups do; when it has returned, unique_ips has one entry, with a host
\* name or None, for each distinct client address, and the counts of the
\* entries add up to the number of records.
C23_LookupNeverAborts ==
    resolve_ips =>
        /\ apc # "raised"
        /\ apc = "done" =>
              /\ Len(analyzer.unique_ips) =
                    Cardinality({records[n].remote_host_ip : n \in 1..Len(records)})
              /\ \A n \in 1..Len(analyzer.unique_ips) :
                    analyzer.unique_ips[n][2].count =
                      Cardinality({m \in 1..Len(records) :
                                     records[m].remote_host_ip = analyzer.unique_ips[n][1]})

\* the key each record gives to a frequency table, None when it gives none
RequestKeys == [n \in 1..Len(records) |-> records[n].ows_request]
AgentKeys == [n \in 1..Len(records) |-> records[n].user_agent]
IpKeys == [n \in 1..Len(records) |-> records[n].remote_host_ip]
ResourceKeys ==
    [n \in 1..Len(records) |->
        IF ResourceKey(records[n]) \in DOMAIN records[n].kvp
          THEN records[n].kvp[ResourceKey(records[n])] ELSE None]

\* the place of the first record that gives the key
FirstSeen(keys, key) ==
    CHOOSE n \in 1..Len(keys) :
        keys[n] = key /\ \A k \in 1..(n - 1) : keys[k] # key

\* the keys and the counts of a table are in order: a greater count first,
\* and of two equal counts the key seen first
InOrder(tkeys, tcounts, keys) ==
    \A a, b \in 1..Len(tkeys) :
        a < b => \/ tcounts[a] > tcounts[b]
                 \/ /\ tcounts[a] = tcounts[b]
                    /\ FirstSeen(keys, tkeys[a]) < FirstSeen(keys, tkeys[b])

KeysOf(t) == [n \in 1..Len(t) |-> t[n][1]]
CountsOf(t) == [n \in 1..Len(t) |-> t[n][2]]
IpCountsOf(t) == [n \in 1..Len(t) |-> t[n][2].count]

\* C24: once Analyzer has returned, requests, resources, user_agents and
\* unique_ips are each in the order of non-increasing count, and entries of
\* equal count in the order in which the records first gave their keys.
C24_StableDescending ==
    apc = "done" =>
        /\ InOrder(KeysOf(analyzer.requests), CountsOf(analyzer.requests), RequestKeys)
        /\ InOrder(KeysOf(analyzer.resources), CountsOf(analyzer.resources), ResourceKeys)
        /\ InOrder(KeysOf(analyzer.user_agents), CountsOf(analyzer.user_agents), AgentKeys)
        /\ InOrder(KeysOf(analyzer.unique_ips), IpCountsOf(analyzer.unique_ips), IpKeys)

\* Analyzer has returned for three records of three client addresses, which
\* tie, of which the second and third share the request that the table lists
\* first
C24_Witness ==
    /\ apc = "done"
    /\ Len(analyzer.unique_ips) = 3
    /\ KeysOf(analyzer.unique_ips) = IpKeys
    /\ Len(analyzer.requests) = 2
    /\ analyzer.requests[1][2] = 2
    /\ analyzer.requests[1][1] # records[1].ows_request
    /\ records[1].ows_request # None

(***************************************************************************)
(* Claims about the indexing pipeline                                      *)
(***************************************************************************)
IsQuery(e) == e.op = "query"

\* the rollups of the run so far: the queries it has issued
Rollups == SelectSeq(events, IsQuery)

\* the run reads three files dated on three different days, daily stats on
ThreeDays ==
    /\ Len(logfiles) = 3
    /\ ~cfg.skip_daily_stats
    /\ Cardinality({get_logfile_date(logfiles[n]) : n \in 1..3}) = 3

\* C3 (as amended): when a run with daily stats over three files dated on
\* three different days has ended, it has fired exactly two rollups, one at
\* the end of the second file and one at the end of the third file, where the
\* day-boundary crossing and the end of the run fall together; none at the
\* end of the first file.
C3_ThreeDaysTwoRollups ==
    (ipc = "done" /\ ThreeDays) =>
        /\ Len(Rollups) = 2
        /\ Rollups[1].file = 2
        /\ Rollups[2].file = 3

\* C3 (as stated): such a run has fired three rollups when it ends
C3_ThreeDaysThreeRollups ==
    (ipc = "done" /\ ThreeDays) => Len(Rollups) = 3

\* a run over three files of three consecutive days has ended
C3_Witness ==
    /\ ipc = "done"
    /\ ThreeDays
    /\ get_logfile_date(logfiles[3]) = NextDay(NextDay(get_logfile_date(logfiles[1])))
    /\ Len(Rollups) > 0

\* the ID the claim gives a document: the hash of the client address (the
\* empty string when the record has none), the ISO-8601 timestamp and the
\* raw request
HashOfFields(d) ==
    "sha256:" \o (IF d.remote_host_ip = None THEN "" ELSE d.remote_host_ip)
       \o isoformat(d.datetime) \o d.request

\* the second run has ended, the store has refused nothing and no rollup
\* has purged records
RerunEnded ==
    /\ run = "second"
    /\ ipc = "done"
    /\ faults = 0
    /\ (cfg.skip_daily_stats \/ cfg.keep_log_days = NotGiven)

\* C4: when the command has been given twice for the same files on a store
\* that was empty before, then with create_id every document's ID is the hash
\* of its client address, ISO-8601 timestamp and request, and the store holds
\* as many documents after the second run as after the first; without
\* create_id it holds twice as many.
C4_ReindexCount ==
    /\ (cfg # <<>> /\ cfg.create_id) => \A d \in store : d.id = HashOfFields(d)
    /\ RerunEnded =>
          Cardinality(store) = IF cfg.create_id THEN first_count ELSE 2 * first_count

\* the second run has ended after writing again, with create_id, a file that
\* holds the same line twice
C4_Witness ==
    /\ RerunEnded
    /\ cfg.create_id
    /\ first_count >= 3
    /\ Cardinality(store) = first_count
    /\ \E d \in store : d.version = 4

(***************************************************************************)
(* Claims about test_time                                                  *)
(***************************************************************************)
\* the seconds of a datetime since the start of 2010, every month counted
\* as 31 days, and the days likewise: numbers that order datetimes and dates
SecondsKey(dt) ==
    (((((dt.year - 2010) * 12 + (dt.month - 1)) * 31 + (dt.day - 1)) * 24 + dt.hour)
       * 60 + dt.minute) * 60 + dt.second
DaysKey(dt) == ((dt.year - 2010) * 12 + (dt.month - 1)) * 31 + (dt.day - 1)

\* the key at the granularity chosen
KeyAt(dt) == IF datetype = "datetime" THEN SecondsKey(dt) ELSE DaysKey(dt)

\* C11: once test_time has returned, for one bound the result is true exactly
\* when the datetime equals the bound at the chosen granularity (calendar day
\* for "date", the second for "datetime"), and for two bounds exactly when
\* bounds[0] <= datetime <= bounds[1] at that granularity, both ends included;
\* for one or two bounds it does not raise.
C11_TestTime ==
    /\ Len(times) \in {1, 2} => tpc # "raised"
    /\ (tpc = "done" /\ Len(times) = 1) =>
          (result <=> KeyAt(intime) = KeyAt(times[1]))
    /\ (tpc = "done" /\ Len(times) = 2) =>
          (result <=> (KeyAt(times[1]) <= KeyAt(intime) /\ KeyAt(intime) <= KeyAt(times[2])))

\* test_time has returned true for a datetime on the day of the upper bound,
\* at a different time of day than the bound
C11_Witness ==
    /\ tpc = "done"
    /\ Len(times) = 2
    /\ datetype = "date"
    /\ result
    /\ DateOf(intime) = DateOf(times[2])
    /\ DtLess(times[2], intime)
    /\ DtLess(times[1], times[2])

\* ---- what the events and the files say of a run ----
\* the positions of the events of one kind
EventsOf(op) == {k \in 1..Len(events) : events[k].op = op}

\* the number of records the bulk writes among the first n events carry for
\* file number f
RECURSIVE SentIn(_, _)
SentIn(f, n) ==
    IF n = 0 THEN 0
    ELSE SentIn(f, n - 1)
           + (IF events[n].op = "bulk" /\ events[n].file = f THEN events[n].n ELSE 0)

\* the number of lines of file number f that give a record, up to the cutoff
AcceptedOf(f) ==
    LET ls == LogFileLines[logfiles[f]]
        good == Cardinality({k \in 1..Len(ls) : ParsedLine[ls[k]].raised = None})
    IN  IF cfg.cutoff # NotGiven /\ cfg.cutoff < good THEN cfg.cutoff ELSE good

\* every record of every file has been sent, and the last file has had its
\* rollup query when daily stats are made
AllProcessed ==
    /\ \A f \in 1..Len(logfiles) : SentIn(f, Len(events)) = AcceptedOf(f)
    /\ (~cfg.skip_daily_stats /\ Len(logfiles) > 0) =>
          \E k \in EventsOf("query") : events[k].file = Len(logfiles)

\* this step reports a bulk write of which the store refused an operation
WarnedStep ==
    /\ Len(events') > Len(events)
    /\ events'[Len(events')].op = "warning"

FailedStep ==
    /\ Len(events') > Len(events)
    /\ events'[Len(events')].op = "failed"

\* the events of file number f among the events es
OpsOfFile(es, f) == {es[k].op : k \in {n \in 1..Len(es) : es[n].file = f}}

C15_QueryAfterWrites ==
    \A q \in EventsOf("query") :
        /\ \A f \in 1..events[q].file : SentIn(f, q - 1) = AcceptedOf(f)
        /\ \A k \in EventsOf("bulk") :
              IF k < q THEN events[k].file <= events[q].file
              ELSE events[k].file > events[q].file

\* a rollup was queried right after the remainder of a batch was flushed at
\* the end of the second or a later file, and a later file was written after
\* the query
C15_Witness ==
    \E q \in EventsOf("query") :
        /\ events[q].file >= 2
        /\ events[q - 1].op = "bulk"
        /\ events[q - 1].n < cfg.bulk_size
        /\ \E k \in EventsOf("bulk") : k > q

\* the number of lines among the first n of file number f that give a
\* record, up to the cutoff
AcceptedAmong(f, n) ==
    LET ls == LogFileLines[logfiles[f]]
        good == Cardinality({k \in 1..n : ParsedLine[ls[k]].raised = None})
    IN  IF cfg.cutoff # NotGiven /\ cfg.cutoff < good THEN cfg.cutoff ELSE good

\* the records of the files 1..f together
RECURSIVE TotalAccepted(_)
TotalAccepted(f) == IF f = 0 THEN 0 ELSE TotalAccepted(f - 1) + AcceptedOf(f)

\* the files whose lines have all been read and flushed
FilesRead ==
    {f \in 1..Len(logfiles) : f < fpos \/ (f = fpos /\ ipc = "rollup")}

\* the lines read so far of the file being read
LinesRead == IF lpos > Len(FileLinesNow) THEN Len(FileLinesNow) ELSE lpos - 1

\* the store holds a document with the fields of the record
Stored(r) ==
    \E d \in store : /\ d.remote_host_ip = r.remote_host_ip
                     /\ d.datetime = r.datetime
                     /\ d.request = r.request

\* C19: for bulk_size >= 1 the batch waiting between two lines is shorter than
\* bulk_size; every bulk write carries between 1 and bulk_size records and
\* only the last one of a file carries fewer than bulk_size; while a file is
\* read, the records written for it and those waiting are together the
\* records accepted so far, and for a file that has been read the records
\* written are the records accepted, no more, no fewer; a first run without
\* generated IDs, refusals or purges ends with one document in the store for
\* each accepted record.
C19_Batching ==
    /\ ipc = "lines" =>
          /\ Len(pending) < cfg.bulk_size
          /\ SentIn(fpos, Len(events)) + Len(pending) = AcceptedAmong(fpos, LinesRead)
    /\ \A k \in EventsOf("bulk") :
          /\ 1 <= events[k].n /\ events[k].n <= cfg.bulk_size
          /\ events[k].n < cfg.bulk_size =>
                \A j \in EventsOf("bulk") : j > k => events[j].file > events[k].file
    /\ \A f \in FilesRead : SentIn(f, Len(events)) = AcceptedOf(f)
    /\ (/\ ipc = "done" /\ run = "first" /\ faults = 0 /\ ~cfg.create_id
         /\ (cfg.skip_daily_stats \/ cfg.keep_log_days = NotGiven)) =>
          /\ Cardinality(store) = TotalAccepted(Len(logfiles))
          /\ \A f \in 1..Len(logfiles) :
                \A k \in 1..Len(LogFileLines[logfiles[f]]) :
                    (/\ ParsedLine[LogFileLines[logfiles[f]][k]].raised = None
                     /\ AcceptedAmong(f, k) > AcceptedAmong(f, k - 1))
                    => Stored(ParsedLine[LogFileLines[logfiles[f]][k]])

\* a run with bulk_size 2 has ended after writing, for its first file of
\* three accepted lines, a full batch and then a remainder of one record
C19_Witness ==
    /\ ipc = "done"
    /\ cfg.bulk_size = 2
    /\ cfg.cutoff = NotGiven
    /\ Len(events) >= 2
    /\ events[1].op = "bulk" /\ events[1].n = 2 /\ events[1].file = 1
    /\ events[2].op = "bulk" /\ events[2].n = 1 /\ events[2].file = 1
    /\ Cardinality(store) >= 3

\* the date each file name carries
FileDate == [f \in LogFileNames |-> get_logfile_date(f)]

\* the window and the threshold
Window(lt) == <<lt.start_date_daily, lt.end_date_daily, lt.threshold_date>>

\* this step ends a file, and issues a rollup query or does not
EndOfFileStep == ipc = "rollup" /\ ipc' = "open"
QueryStep ==
    /\ Len(events') > Len(events)
    /\ events'[Len(events) + 1].op = "query"

\* C17: at the end of a file, with daily stats made, a rollup query is issued
\* exactly when the date of the file is not before the threshold or the file
\* is the last one, and never when daily stats are skipped; no file has two
\* rollup queries; the step of a rollup, whatever the answer to the query,
\* moves the window to [old end, old end + 1 day) and the threshold to the day
\* after the file's date; no other step of a run changes an initialized
\* window or threshold; the window is always one day wide.
C17_RollupRule ==
    [][/\ EndOfFileStep =>
            /\ QueryStep <=>
                  /\ ~cfg.skip_daily_stats
                  /\ \/ DtLeq(logtrack.threshold_date, FileDate[logfiles[fpos]])
                     \/ fpos = Len(logfiles)
            /\ QueryStep =>
                  /\ logtrack'.start_date_daily = logtrack.end_date_daily
                  /\ logtrack'.end_date_daily = NextDay(logtrack.end_date_daily)
                  /\ logtrack'.start_date_daily = NextDay(logtrack.start_date_daily)
                  /\ logtrack'.threshold_date = NextDay(FileDate[logfiles[fpos]])
       /\ QueryStep => EndOfFileStep
       /\ (~QueryStep /\ run' = run /\ logtrack.start_date_daily # NoDatetime) =>
             Window(logtrack') = Window(logtrack)
       /\ \A j, k \in {n \in 1..Len(events') : events'[n].op = "query"} :
             events'[j].file = events'[k].file => j = k
       /\ logtrack'.start_date_daily # NoDatetime =>
             logtrack'.end_date_daily = NextDay(logtrack'.start_date_daily)]_vars

\* the second of three files, dated two days after the first, has ended with a
\* rollup of the window that ends on the first file's date, and the window is
\* now the first file's date, not the day before the second file's date
C17_Witness ==
    /\ ipc = "open"
    /\ fpos = 3
    /\ Len(logfiles) = 3
    /\ FileDate[logfiles[1]] = DateTime(2018, 1, 23, 0, 0, 0)
    /\ FileDate[logfiles[2]] = DateTime(2018, 1, 25, 0, 0, 0)
    /\ \E q \in EventsOf("query") :
          /\ events[q].file = 2
          /\ events[q].end = DateTime(2018, 1, 23, 0, 0, 0)
    /\ Window(logtrack) = <<DateTime(2018, 1, 23, 0, 0, 0), DateTime(2018, 1, 24, 0, 0, 0),
                             DateTime(2018, 1, 26, 0, 0, 0)>>

\* this step opens a file
OpenStep == ipc = "open" /\ ipc' = "lines"

\* C18: opening the first file of a run, of date D, sets the window to
\* [D - 1 day, D) and the threshold to D + 1 day; opening a later file leaves
\* window and threshold as they are; a window is set where there was none
\* only by opening the first file, and within a run it is never unset.
C18_FirstFileInit ==
    [][/\ (OpenStep /\ fpos = 1) =>
            /\ logtrack.start_date_daily = NoDatetime
            /\ logtrack'.end_date_daily = FileDate[logfiles[1]]
            /\ logtrack'.start_date_daily = PrevDay(FileDate[logfiles[1]])
            /\ logtrack'.threshold_date = NextDay(FileDate[logfiles[1]])
       /\ (OpenStep /\ fpos > 1) => Window(logtrack') = Window(logtrack)
       /\ (logtrack.start_date_daily = NoDatetime /\ logtrack'.start_date_daily # NoDatetime)
             => (OpenStep /\ fpos = 1)
       /\ (logtrack.start_date_daily # NoDatetime /\ logtrack'.start_date_daily = NoDatetime)
             => run' # run]_vars

\* the second file, dated 25 January, has been opened and the window is the
\* one the first file, dated 23 January, gave: [22 January, 23 January) with
\* threshold 24 January
C18_Witness ==
    /\ ipc = "lines"
    /\ fpos = 2
    /\ FileDate[logfiles[1]] = DateTime(2018, 1, 23, 0, 0, 0)
    /\ FileDate[logfiles[2]] = DateTime(2018, 1, 25, 0, 0, 0)
    /\ Window(logtrack) = <<DateTime(2018, 1, 22, 0, 0, 0), DateTime(2018, 1, 23, 0, 0, 0),
                             DateTime(2018, 1, 24, 0, 0, 0)>>

\* C26: a rollup whose query succeeded writes exactly one stats document,
\* right after the query and under the YYYY-MM-DD date of the start of the
\* window queried; the stats index never holds two documents of one date, so
\* that a day computed again replaces its document, which then carries the
\* count of the latest query when the store refused nothing; no two stats
\* writes of one run have the same key.
C26_OneStatsPerWindow ==
    /\ \A q \in EventsOf("query") :
          /\ q < Len(events)
          /\ events[q + 1].op \in {"stats", "failed"}
    /\ \A k \in EventsOf("stats") :
          /\ k > 1
          /\ events[k - 1].op = "query"
          /\ events[k].key = strftimeYmd(events[k - 1].start)
          /\ faults = 0 =>
                [date |-> events[k].key, total_requests |-> events[k - 1].n] \in stats
    /\ \A j, k \in EventsOf("stats") : events[j].key = events[k].key => j = k
    /\ \A s, t \in stats : s.date = t.date => s = t

\* a second run without create_id has computed again the two days the first
\* run had computed, each over the records of both runs: the two documents
\* are replaced by documents of twice the count
C26_Witness ==
    /\ run = "second"
    /\ ipc = "done"
    /\ faults = 0
    /\ Cardinality(EventsOf("stats")) = 2
    /\ Cardinality(stats) = 2
    /\ ~cfg.create_id
    /\ cfg.keep_log_days = NotGiven
    /\ \A k \in EventsOf("stats") : events[k - 1].n >= 2

\* this step issues a purge
PurgeStep ==
    /\ Len(events') > Len(events)
    /\ events'[Len(events')].op = "purge"

\* the places of the purges and of the queries among the events after the step
PurgesAfter == {k \in 1..Len(events') : events'[k].op = "purge"}
QueriesAfter == {k \in 1..Len(events') : events'[k].op = "query"}

\* C29: a purge is issued only with keep_log_days given, in the step of a
\* rollup whose query succeeded, after the stats write of that window, and the
\* stats index then holds the document of the window with the count of the
\* query; the step deletes only documents dated before the start of the next
\* window; every query that follows a purge in a run starts at or after the
\* purge's cutoff, so that no document purged would have been counted later.
C29_PurgeSafety ==
    [][PurgeStep =>
          /\ cfg.keep_log_days # NotGiven
          /\ Len(events') = Len(events) + 3
          /\ events'[Len(events) + 1].op = "query"
          /\ events'[Len(events) + 2].op = "stats"
          /\ [date |-> strftimeYmd(logtrack.start_date_daily),
              total_requests |-> events'[Len(events) + 1].n] \in stats'
          /\ store' \subseteq store
          /\ \A d \in store \ store' : DtLess(d.datetime, logtrack'.start_date_daily)
          /\ \A p \in PurgesAfter : \A q \in QueriesAfter :
                q > p => DtLeq(events'[p].end, events'[q].start)]_vars

\* the window and the threshold the first file of the run gives
FirstFileWindow ==
    <<PrevDay(FileDate[logfiles[1]]), FileDate[logfiles[1]],
      NextDay(FileDate[logfiles[1]])>>

\* C30: with skip_daily_stats the run issues no rollup query, no stats write
\* and no purge and reports no failed query, whatever keep_log_days is, and
\* the stats index stays empty; once the first file is opened the window and
\* the threshold are those of the first file until the run ends; the records
\* accepted of every file that has been read have been sent to the store, and
\* a first run without generated IDs or refusals ends with one document for
\* each of them.
C30_SkipDailyStats ==
    (cfg # <<>> /\ cfg.skip_daily_stats) =>
        /\ \A k \in 1..Len(events) : events[k].op \in {"bulk", "warning"}
        /\ stats = {}
        /\ logtrack.start_date_daily # NoDatetime =>
              /\ Window(logtrack) = FirstFileWindow
              /\ logtrack.base_filename_datetime = FileDate[logfiles[1]]
        /\ \A f \in FilesRead : SentIn(f, Len(events)) = AcceptedOf(f)
        /\ ipc = "done" => FilesRead = 1..Len(logfiles)
        /\ (ipc = "done" /\ run = "first" /\ faults = 0 /\ ~cfg.create_id) =>
              Cardinality(store) = TotalAccepted(Len(logfiles))

\* a run that skips daily stats with keep_log_days given has ended after three
\* files, the second of them dated at the threshold and the third beyond it;
\* the records of the three files are in the store
C30_Witness ==
    /\ cfg.skip_daily_stats
    /\ cfg.keep_log_days # NotGiven
    /\ ipc = "done"
    /\ faults = 0
    /\ Len(logfiles) = 3
    /\ FileDate[logfiles[2]] = logtrack.threshold_date
    /\ DtLess(logtrack.threshold_date, FileDate[logfiles[3]])
    /\ EventsOf("bulk") # {}
    /\ \A f \in 1..3 : AcceptedOf(f) > 0 /\ SentIn(f, Len(events)) = AcceptedOf(f)

=============================================================================
